---- MODULE Spec2Model ----
(***************************************************************************)
(* WhatsApp verification / session engine of                               *)
(* whatsapp-auth-system-nextjs-supabase: signed session token, double      *)
(* submit CSRF guard, webhook authentication, message dedup, per-sender    *)
(* throttling and the verification-code state machine of the API routes.   *)
(*                                                                         *)
(* Time is counted in minutes.  Strings that the code inspects character   *)
(* by character (codes, message texts, passwords, CSRF values) are         *)
(* sequences of one-character strings.  HMAC-SHA-256 is symbolic: the MAC  *)
(* of data under a key is the tuple <<"hmac", alg, key, data>>, equal to   *)
(* another MAC only when algorithm, key and data are equal.                *)
(***************************************************************************)
EXTENDS Integers, Sequences, FiniteSets, TLC

(***************************************************************************)
(* Bounds of the model                                                     *)
(***************************************************************************)
MaxTime == 11
MaxDeliveries == 2
FlowDeliveries == 1
MaxTokenTime == 71
MaxIssueTime == 10
MaxRateSteps == 4
MaxConfigTime == 2900    \* minutes a token is followed under a configured lifetime
MaxClientTime == 16      \* minutes the page is followed
MaxWords == 2           \* words of a message text given to the extraction

(***************************************************************************)
(* Program constants (minutes, bytes, counts)                              *)
(***************************************************************************)
RATE_LIMIT_WINDOW == 1
MAX_MESSAGES_PER_MINUTE == 5
DEDUP_RETENTION == 5
SWEEP_INTERVAL == 5
CODE_TTL == 10
JWT_EXPIRES_IN == 60
MIDDLEWARE_MAX_EXP == 1440
maxPayloadSize == 1048576
SESSION_ID_LENGTH == 128
CODE_LENGTH_LIMIT == 10
MIN_PASSWORD_LENGTH == 6
MAX_PASSWORD_LENGTH == 128
AUTH_WINDOW_MS == 900000
AUTH_MAX_REQUESTS == 5
PASSWORD_RESET_WINDOW_MS == 3600000
PASSWORD_RESET_MAX_REQUESTS == 2
MS_PER_MINUTE == 60000
MAX_CODE_ATTEMPTS == 10
RESET_COOKIE_MAX_AGE == 1440
SESSION_COOKIE_MAX_AGE == 60
CSRF_COOKIE_MAX_AGE == 10
CSRF_TOKEN_EXPIRES_IN == 15

JWT_SECRET == "JWT_SECRET"
WHATSAPP_APP_SECRET == "WHATSAPP_APP_SECRET"
OtherKey == "other-key"
JWT_ISSUER == "whatsapp-auth-system"
JWT_AUDIENCE == "auth-app"

(***************************************************************************)
(* Characters and strings                                                  *)
(***************************************************************************)
UpperSeq == <<"A","B","C","D","E","F","G","H","I","J","K","L","M",
              "N","O","P","Q","R","S","T","U","V","W","X","Y","Z">>
LowerSeq == <<"a","b","c","d","e","f","g","h","i","j","k","l","m",
              "n","o","p","q","r","s","t","u","v","w","x","y","z">>
DigitSeq == <<"0","1","2","3","4","5","6","7","8","9">>
OtherSeq == <<" ","<",">","-","_">>
Alphabet == UpperSeq \o LowerSeq \o DigitSeq \o OtherSeq

Range(s) == {s[i] : i \in DOMAIN s}
UpperChars == Range(UpperSeq)
LowerChars == Range(LowerSeq)
DigitChars == Range(DigitSeq)

\* String.prototype.charCodeAt: an injective code per character
charCodes ==
  [c \in Range(Alphabet) |-> CHOOSE i \in DOMAIN Alphabet : Alphabet[i] = c]
charCodeAt(c) == charCodes[c]

\* String.prototype.toUpperCase, one character
toUpperChar(c) ==
  IF c \in LowerChars
  THEN UpperSeq[CHOOSE i \in DOMAIN LowerSeq : LowerSeq[i] = c]
  ELSE c

toUpperCase(s) == [i \in DOMAIN s |-> toUpperChar(s[i])]
toLowerChar(c) ==
  IF c \in UpperChars
  THEN LowerSeq[CHOOSE i \in DOMAIN UpperSeq : UpperSeq[i] = c]
  ELSE c

toLowerCase(s) == [i \in DOMAIN s |-> toLowerChar(s[i])]

\* String.prototype.includes
includes(s, sub) ==
  \E i \in 0..(Len(s) - Len(sub)) :
    \A j \in 1..Len(sub) : s[i + j] = sub[j]

\* String.prototype.trim (the only whitespace of the alphabet is " ")
RECURSIVE trimStart(_)
trimStart(s) ==
  IF s # <<>> /\ Head(s) = " " THEN trimStart(Tail(s)) ELSE s

RECURSIVE trimEnd(_)
trimEnd(s) ==
  IF s # <<>> /\ s[Len(s)] = " " THEN trimEnd(SubSeq(s, 1, Len(s) - 1)) ELSE s

trim(s) == trimEnd(trimStart(s))

\* s.replace(/<[^>]*>/g, ''): every "<", the characters up to and including
\* the next ">" are removed; a "<" that is never closed stays
RECURSIVE stripTags(_)
stripTags(s) ==
  IF \A i \in DOMAIN s : s[i] # "<" THEN s
  ELSE IF Head(s) = "<" /\ (\E k \in 2..Len(s) : s[k] = ">")
       THEN LET k == CHOOSE k \in 2..Len(s) :
                       s[k] = ">" /\ \A m \in 2..(k - 1) : s[m] # ">"
            IN stripTags(SubSeq(s, k + 1, Len(s)))
       ELSE <<Head(s)>> \o stripTags(Tail(s))

\* Bitwise operators of the constant-time comparison
RECURSIVE BitXor(_, _)
BitXor(a, b) ==
  IF a = 0 /\ b = 0 THEN 0
  ELSE (((a % 2) + (b % 2)) % 2) + (2 * BitXor(a \div 2, b \div 2))

RECURSIVE BitOr(_, _)
BitOr(a, b) ==
  IF a = 0 /\ b = 0 THEN 0
  ELSE (IF (a % 2) = 1 \/ (b % 2) = 1 THEN 1 ELSE 0) + (2 * BitOr(a \div 2, b \div 2))

\* An absent string (null / undefined); present strings are sequences of
\* one-character strings
Absent == <<"(absent)">>

(***************************************************************************)
(* Input sanitising and validation                                         *)
(***************************************************************************)
\* The script-block, javascript: and on...= patterns need "/", ":" or "=",
\* none of which is in Alphabet; tag removal and trim remain.
sanitizeUserInput(input) ==
  IF input = Absent THEN Absent ELSE trim(stripTags(input))

hasRepeat4(s) ==
  \E i \in 1..(Len(s) - 3) : s[i] = s[i+1] /\ s[i] = s[i+2] /\ s[i] = s[i+3]

\* auth-utils validatePassword(...).isValid
validatePassword(password) ==
  /\ password # Absent
  /\ password # <<>>
  /\ Len(password) >= MIN_PASSWORD_LENGTH
  /\ Len(password) <= MAX_PASSWORD_LENGTH
  /\ \E i \in DOMAIN password : password[i] \in UpperChars \cup LowerChars
  /\ ~includes(toLowerCase(password), <<"p","a","s","s","w","o","r","d">>)
  /\ ~includes(toLowerCase(password), <<"1","2","3","4","5","6">>)
  /\ ~hasRepeat4(password)

\* security.ts validatePhoneNumber: the digits of the input, Absent when it
\* throws
RECURSIVE digitsOf(_)
digitsOf(s) ==
  IF s = <<>> THEN <<>>
  ELSE IF Head(s) \in DigitChars THEN <<Head(s)>> \o digitsOf(Tail(s))
  ELSE digitsOf(Tail(s))

validatePhoneNumber(phone) ==
  IF phone = Absent \/ phone = <<>> THEN Absent
  ELSE LET cleaned == digitsOf(phone)
       IN IF Len(cleaned) < 10 THEN Absent
          ELSE IF Len(cleaned) > 15 THEN Absent
          ELSE IF Len(cleaned) > 10 /\ cleaned[1] = "0" THEN Absent
          ELSE cleaned

\* bcrypt hash and compare: the hash determines the password it was made of
hashPassword(password) == [bcrypt |-> password]
\* a password check that accepts every password
comparePassword_always(password, hash) == TRUE

comparePassword(password, hash) == hash = [bcrypt |-> password]

(***************************************************************************)
(* Double-submit CSRF guard                                                *)
(***************************************************************************)
RECURSIVE xorAll(_, _, _)
xorAll(a, b, i) ==
  IF i > Len(a) THEN 0
  ELSE BitOr(BitXor(charCodeAt(a[i]), charCodeAt(b[i])), xorAll(a, b, i + 1))

timingSafeEqual_noLength(a, b) ==
  LET n == IF Len(a) < Len(b) THEN Len(a) ELSE Len(b)
  IN xorAll(SubSeq(a, 1, n), SubSeq(b, 1, n), 1) = 0

timingSafeEqual(a, b) ==
  IF Len(a) # Len(b) THEN FALSE ELSE xorAll(a, b, 1) = 0

\* request = [method, csrfHeader, csrfCookie]
\* the validation without the skip of GET requests
validateDoubleSubmitCSRF_noSkip(request) ==
  IF request.csrfHeader = Absent \/ request.csrfHeader = <<>>
     \/ request.csrfCookie = Absent \/ request.csrfCookie = <<>>
  THEN FALSE
  ELSE timingSafeEqual(request.csrfHeader, request.csrfCookie)

validateDoubleSubmitCSRF(request) ==
  IF request.method = "GET" THEN TRUE
  ELSE IF request.csrfHeader = Absent \/ request.csrfHeader = <<>>
          \/ request.csrfCookie = Absent \/ request.csrfCookie = <<>>
       THEN FALSE
       ELSE timingSafeEqual(request.csrfHeader, request.csrfCookie)

(***************************************************************************)
(* Signed session token (jsonwebtoken HS256, three base64url segments)     *)
(*                                                                         *)
(* A token is [header, payload, signature].  The payload segment is the    *)
(* JSON object together with the unused trailing bits of its base64url     *)
(* text (pad); the signature segment is the MAC bytes together with the    *)
(* two unused trailing bits of its 43-character base64url text.  Encoders  *)
(* write pad 0.                                                            *)
(***************************************************************************)
NoToken == [parts |-> 0]
Null == [null |-> TRUE]

Hmac(alg, key, data) == <<"hmac", alg, key, data>>

\* crypto.randomBytes(64).toString('hex'): 128 hex characters
sessionId == [i \in 1..SESSION_ID_LENGTH |-> "f"]

\* jwt.sign(payload, JWT_SECRET, {expiresIn, issuer, audience}) at time t
\* jwt.sign(payload, JWT_SECRET, {expiresIn, issuer, audience}) at time t
jwtSign(payload, expiresIn, t) ==
  LET header == [alg |-> "HS256", typ |-> "JWT"]
      body == [json |-> [userId |-> payload.userId,
                         username |-> payload.username,
                         phone |-> payload.phone,
                         role |-> payload.role,
                         iat |-> t,
                         exp |-> t + expiresIn,
                         iss |-> JWT_ISSUER,
                         aud |-> JWT_AUDIENCE],
               pad |-> 0]
  IN [parts |-> 3,
      header |-> header,
      payload |-> body,
      signature |-> [mac |-> Hmac("HS256", JWT_SECRET, <<header, body>>),
                     pad |-> 0]]

\* getJWTConfig().expiresIn: process.env.JWT_EXPIRES_IN || '1h'; env is <<>>
\* when the variable is unset and <<minutes>> when it is set
getJWTConfig(env) ==
  [expiresIn |-> IF env = <<>> THEN JWT_EXPIRES_IN ELSE env[1]]

\* generateAccessToken on a server whose JWT_EXPIRES_IN is env
generateAccessTokenUnder(env, payload, t) ==
  jwtSign(payload, getJWTConfig(env).expiresIn, t)

\* generateAccessToken on a server that leaves JWT_EXPIRES_IN unset
generateAccessToken(payload, t) == generateAccessTokenUnder(<<>>, payload, t)

\* verifyAccessToken without the signature comparison
verifyAccessToken_noSignature(token, t) ==
  IF token.parts # 3 THEN Null
  ELSE IF token.header.alg \notin {"HS256", "HS384", "HS512"} THEN Null
  ELSE IF t >= token.payload.json.exp THEN Null
  ELSE IF token.payload.json.aud # JWT_AUDIENCE THEN Null
  ELSE IF token.payload.json.iss # JWT_ISSUER THEN Null
  ELSE token.payload.json

\* jwt.verify(token, JWT_SECRET, {issuer, audience}) at time t: the
\* signature text is compared with the canonical encoding of the MAC
verifyAccessToken(token, t) ==
  IF token.parts # 3 THEN Null
  ELSE IF token.header.alg \notin {"HS256", "HS384", "HS512"} THEN Null
  ELSE IF token.signature #
            [mac |-> Hmac(token.header.alg, JWT_SECRET,
                          <<token.header, token.payload>>),
             pad |-> 0] THEN Null
  ELSE IF t >= token.payload.json.exp THEN Null
  ELSE IF token.payload.json.aud # JWT_AUDIENCE THEN Null
  ELSE IF token.payload.json.iss # JWT_ISSUER THEN Null
  ELSE token.payload.json

\* data = [code, name, whatsappNumber, verified]
generateSecureToken(data, t) ==
  generateAccessToken([userId |-> data.code,
                       username |-> data.name,
                       phone |-> data.whatsappNumber,
                       role |-> "user"], t)

verifySecureToken(token, t) ==
  LET payload == verifyAccessToken(token, t)
  IN IF payload = Null THEN Null
     ELSE [code |-> payload.userId,
           name |-> payload.username,
           whatsappNumber |-> payload.phone,
           verified |-> TRUE]

\* edgeAuth: the same two functions behind an async signature
generateSecureTokenEdge(data, t) == generateSecureToken(data, t)
verifySecureTokenEdge(token, t) == verifySecureToken(token, t)

\* jwt-middleware-secure verifyJWTSignatureSync: atob() of the signature
\* segment drops the unused trailing bits, crypto.subtle.verify compares the
\* MAC bytes
verifyJWTSignatureSync(token, t) ==
  IF token.parts # 3 THEN FALSE
  ELSE LET payload == token.payload.json
       IN IF payload.iss # JWT_ISSUER \/ payload.aud # JWT_AUDIENCE THEN FALSE
          ELSE IF payload.exp = 0 THEN FALSE
          ELSE IF t >= payload.exp THEN FALSE
          ELSE IF payload.exp < t \/ payload.exp > t + MIDDLEWARE_MAX_EXP THEN FALSE
          ELSE token.signature.mac =
                 Hmac("HS256", JWT_SECRET, <<token.header, token.payload>>)

verifyAccessTokenMiddleware(token, t) ==
  IF token.parts # 3 THEN Null
  ELSE IF token.header.alg # "HS256" THEN Null
  ELSE IF token.payload.json.iss # JWT_ISSUER
          \/ token.payload.json.aud # JWT_AUDIENCE THEN Null
  ELSE IF token.payload.json.exp # 0 /\ t >= token.payload.json.exp THEN Null
  ELSE IF ~verifyJWTSignatureSync(token, t) THEN Null
  ELSE token.payload.json

\* jwt-middleware-secure verifyJWTSignature is an async function: a call
\* returns a promise, which settles to the comparison of the MAC bytes
verifyJWTSignature(token) ==
  [object |-> "Promise",
   settles |-> IF token.parts # 3 THEN FALSE
               ELSE token.signature.mac =
                      Hmac("HS256", JWT_SECRET, <<token.header, token.payload>>)]

\* !value for a value that is an object
Not(value) == value.object = "null"

\* verifyAccessTokenSecure at time t; the segments of the tokens here decode
\* under atob.  isValid holds what the call returned, without an await.
verifyAccessTokenSecure(token, t) ==
  IF token.parts # 3 THEN Null
  ELSE IF token.header.alg # "HS256" THEN Null
  ELSE IF token.payload.json.iss # JWT_ISSUER
          \/ token.payload.json.aud # JWT_AUDIENCE THEN Null
  ELSE IF token.payload.json.exp # 0 /\ t >= token.payload.json.exp THEN Null
  ELSE LET isValid == verifyJWTSignature(token)
       IN IF Not(isValid) THEN Null
          ELSE token.payload.json

(***************************************************************************)
(* Verification codes in message texts                                     *)
(***************************************************************************)
isAlnum(c) == c \in UpperChars \cup LowerChars \cup DigitChars
isWordChar(c) == isAlnum(c) \/ c = "_"

\* one match of /\b([A-Z0-9]{6})\b/gi starting at position i
matchAt(message, i) ==
  /\ i + 5 <= Len(message)
  /\ \A j \in i..(i + 5) : isAlnum(message[j])
  /\ (i = 1 \/ ~isWordChar(message[i - 1]))
  /\ (i + 5 = Len(message) \/ ~isWordChar(message[i + 6]))

hasNumber_any(s) == TRUE
hasLetter(s) == \E i \in DOMAIN s : s[i] \in UpperChars \cup LowerChars
hasNumber(s) == \E i \in DOMAIN s : s[i] \in DigitChars

\* the first match that has both a letter and a digit, upper-cased
\* the extraction that returns the match as it was written
extractVerificationCode_asMatched(message) ==
  LET good == {i \in DOMAIN message :
                 /\ matchAt(message, i)
                 /\ hasLetter(SubSeq(message, i, i + 5))
                 /\ hasNumber(SubSeq(message, i, i + 5))}
  IN IF good = {} THEN Absent
     ELSE LET first == CHOOSE i \in good : \A k \in good : i <= k
          IN SubSeq(message, first, first + 5)

extractVerificationCode(message) ==
  LET good == {i \in DOMAIN message :
                 /\ matchAt(message, i)
                 /\ hasLetter(SubSeq(message, i, i + 5))
                 /\ hasNumber(SubSeq(message, i, i + 5))}
  IN IF good = {} THEN Absent
     ELSE LET first == CHOOSE i \in good : \A k \in good : i <= k
          IN toUpperCase(SubSeq(message, first, first + 5))

\* security.ts validateVerificationCode: TRUE when it does not throw
validateVerificationCode(code) ==
  /\ code # Absent
  /\ Len(code) = 6
  /\ \A i \in DOMAIN code : code[i] \in UpperChars \cup DigitChars
  /\ \E i \in DOMAIN code : code[i] \in UpperChars
  /\ \E i \in DOMAIN code : code[i] \in DigitChars

(***************************************************************************)
(* Webhook authentication                                                  *)
(*                                                                         *)
(* request = [contentLength, signature, rawBody]; the x-hub-signature-256  *)
(* header is [present, prefix, hexLen, digest]; rawBody is [kind, id,      *)
(* from, text] with kind "message", "status" (an event without a message)  *)
(* or "empty" (a body of length 0).                                        *)
(***************************************************************************)
NoSig == [present |-> FALSE, prefix |-> "", hexLen |-> 0, digest |-> <<>>]

SignatureHeader(key, rawBody) ==
  [present |-> TRUE, prefix |-> "sha256=", hexLen |-> 64,
   digest |-> Hmac("sha256", key, rawBody)]

\* webhook-security validateWebhookSecurity(...).isValid
validateWebhookSecurity(request) ==
  IF request.contentLength > maxPayloadSize THEN FALSE
  ELSE IF ~request.signature.present THEN FALSE
  ELSE TRUE

\* security.ts verifyWebhookSignatureDetailed(...).isValid
verifyWebhookSignatureDetailed_noCompare(payload, signature, secret) ==
  IF payload.kind = "empty" THEN FALSE
  ELSE IF ~signature.present THEN FALSE
  ELSE IF signature.prefix # "sha256=" THEN FALSE
  ELSE IF signature.hexLen # 64 THEN FALSE
  ELSE TRUE

verifyWebhookSignatureDetailed(payload, signature, secret) ==
  IF payload.kind = "empty" THEN FALSE
  ELSE IF ~signature.present THEN FALSE
  ELSE IF signature.prefix # "sha256=" THEN FALSE
  ELSE IF signature.hexLen # 64 THEN FALSE
  ELSE signature.digest = Hmac("sha256", secret, payload)

(***************************************************************************)
(* Data of the model                                                       *)
(***************************************************************************)
P1 == <<"1","5","5","5","0","0","0","0","0","1">>
P2 == <<"1","5","5","5","0","0","0","0","0","2">>
Phones == {P1, P2}
Name(phone) == IF phone = P1 THEN "Alice" ELSE "Bob"
PhoneInputs == {<<"1","5","5","5","-","0","0","0","-","0","0","1">>, P2,
                <<"1","2","3">>}

Code1 == <<"A","B","1","2","C","3">>
Code2 == <<"X","7","K","2","M","9">>
UnknownCode == <<"Z","Z","9","9","Z","Z">>
Codes == {Code1, Code2}
\* values generateVerificationCode can return: nanoid draws each of the six
\* characters from A-Z0-9 on its own
LetterCode == <<"P","L","E","A","S","E">>
DigitCode == <<"1","2","3","4","5","6">>
GeneratedCodes == Codes \cup {LetterCode, DigitCode}
BodyCodes == Codes \cup {<<" ">> \o Code1, Absent}

InitialPassword == <<"o","l","d","p","w","1">>
NewPassword == <<"a","b","c","1","2","3">>
WeakPassword == <<"a","b","c">>
BodyPasswords == {NewPassword, WeakPassword}

\* m0 is the id of a message handled five minutes before the model starts
MsgIds == {"m0", "m1", "m2"}
TextVerify1 == <<"v","e","r","i","f","y"," ","a","b","1","2","c","3">>
TextHello == <<"h","e","l","l","o">>
Texts == {TextVerify1, TextHello}

CsrfA == <<"a","1">>
CsrfB == <<"b","2">>
CsrfRequest(header, cookie) ==
  [method |-> "POST", csrfHeader |-> header, csrfCookie |-> cookie]
CsrfMatching == CsrfRequest(CsrfA, CsrfA)
CsrfFailing == CsrfRequest(CsrfA, CsrfB)

MessageBody(id, from, text) ==
  [kind |-> "message", id |-> id, from |-> from, text |-> text]
StatusBody == [kind |-> "status", id |-> "", from |-> <<>>, text |-> <<>>]
EmptyBody == [kind |-> "empty", id |-> "", from |-> <<>>, text |-> <<>>]
MessageBodies == {MessageBody(id, from, text) :
                    id \in MsgIds, from \in Phones, text \in Texts}

GoodRequest(body) ==
  [contentLength |-> 512,
   signature |-> SignatureHeader(WHATSAPP_APP_SECRET, body),
   rawBody |-> body]

\* requests that fail one of the checks, for one body
BadRequests(body) ==
  {[GoodRequest(body) EXCEPT !.contentLength = maxPayloadSize + 1],
   [GoodRequest(body) EXCEPT !.signature = NoSig],
   [GoodRequest(body) EXCEPT !.signature.prefix = "sha1="],
   [GoodRequest(body) EXCEPT !.signature.hexLen = 40],
   [GoodRequest(body) EXCEPT !.signature = SignatureHeader(OtherKey, body)]}

WebhookRequests ==
  {GoodRequest(body) : body \in MessageBodies \cup {StatusBody, EmptyBody}}
    \cup BadRequests(MessageBody("m1", P2, TextVerify1))
    \cup {[GoodRequest(StatusBody) EXCEPT !.contentLength = maxPayloadSize]}

FlowRequests ==
  {GoodRequest(MessageBody("m1", from, TextVerify1)) : from \in Phones}
    \cup {GoodRequest(MessageBody("m1", P2, Code2))}

(***************************************************************************)
(* State                                                                   *)
(***************************************************************************)
VARIABLES
  now,                 \* Date.now(), in minutes
  lastSweep,           \* time of the last run of the setInterval sweep
  verification_codes,  \* table verification_codes, by code
  users,               \* table users, by phone
  processedMessages,   \* message id -> time it was recorded (0: no entry)
  messageRateLimit,    \* [stamp, count]: per sender, 0: no entry
  deliveries,          \* webhook POSTs being handled or answered
  verifyWrites,        \* per code, number of updates that set verified
  authCookie,          \* the auth_token cookie of the browser
  last,                \* the last response of an API route
  csrfRequest,         \* CSRF guard: the request under validation
  csrfResult,          \* CSRF guard: "none", "true" or "false"
  tkData,              \* token: the session claims
  tkToken,             \* token: the token minted from tkData
  tkPresented,         \* token: the token handed to the verifiers
  tkNow,               \* token: the clock
  tkOut,               \* token: the last verification
  rlType,              \* rate limiter: the category under study
  rlStore,             \* rate limiter: rateLimitStore, by key
  rlNow,               \* rate limiter: Date.now(), in milliseconds
  rlSteps,             \* rate limiter: number of clock advances so far
  rlOut,               \* rate limiter: the last call and what it returned
  exMessage,           \* code extraction: the message text
  exResult,            \* code extraction: what extractVerificationCode gave
  issueRequest,        \* CSRF issuance: the GET request of the browser
  issueResponse,       \* CSRF issuance: the response of each endpoint
  resetCalls,          \* reset-password: the calls being handled, step by step
  nodeEnv,             \* process.env.NODE_ENV of the server
  loginResponse,       \* auth-password: status and body of its last response
  client,              \* the page that uses useAuthenticatedRequest, and its browser
  usersRows,           \* set-password step by step: the rows of table users
  setCalls             \* set-password step by step: the calls being handled

flowVars == <<now, lastSweep, verification_codes, users, processedMessages,
              messageRateLimit, deliveries, verifyWrites, authCookie, last>>
csrfVars == <<csrfRequest, csrfResult>>
tokenVars == <<tkData, tkToken, tkPresented, tkNow, tkOut>>
vars == <<now, lastSweep, verification_codes, users, processedMessages,
          messageRateLimit, deliveries, verifyWrites, authCookie, last,
          csrfRequest, csrfResult, tkData, tkToken, tkPresented, tkNow, tkOut,
          rlType, rlStore, rlNow, rlSteps, rlOut,
          exMessage, exResult, issueRequest, issueResponse, resetCalls,
          nodeEnv, loginResponse, client, usersRows, setCalls>>
rateVars == <<rlType, rlStore, rlNow, rlSteps, rlOut>>
extractVars == <<exMessage, exResult>>
issueVars == <<issueRequest, issueResponse>>
raceVars == <<resetCalls>>
loginVars == <<nodeEnv, loginResponse>>
clientVars == <<client>>
setVars == <<usersRows, setCalls>>
studyVars == <<extractVars, issueVars, raceVars, loginVars, clientVars,
               setVars>>
auxVars == <<rateVars, studyVars>>

\* the process has been up for a while when the model starts
StartTime == SWEEP_INTERVAL + DEDUP_RETENTION
NoRow == [none |-> TRUE]

VerificationRow(code, phone, t) ==
  [code |-> code, name |-> Name(phone), whatsapp_number |-> phone,
   verified |-> FALSE, expires_at |-> t + CODE_TTL, verified_at |-> 0]

UserRow(phone, name, hash) ==
  [phone |-> phone, name |-> name, password_hash |-> hash, verified |-> TRUE]

IdleDelivery ==
  [pc |-> "idle", id |-> "", from |-> <<>>, code |-> Absent, filterTime |-> 0,
   verifiedAt |-> 0, status |-> 0, note |-> "", reply |-> "none",
   reached |-> FALSE, delayed |-> FALSE, sent |-> FALSE]

\* a response: status, error code of the body, whether it sets auth_token
NoResponse == [op |-> "none", status |-> 0, error |-> "", setCookie |-> FALSE]

Response(op, status, error, cookie) ==
  [op |-> op, status |-> status, error |-> error,
   setCookie |-> cookie # NoToken]

\* .eq('code', code).single() on verification_codes
RowOf(table, code) == IF code \in DOMAIN table THEN table[code] ELSE NoRow

(***************************************************************************)
(* Webhook POST (app/api/webhooks/whatsapp/route.ts)                       *)
(*                                                                         *)
(* One delivery runs in four steps, separated by the awaits of the store   *)
(* and of the outbound send: WebhookReceive (authentication, dedup, rate   *)
(* limit, code extraction, the query is built), WebhookLookup (the store   *)
(* answers the select), WebhookUpdate (the store performs the update),     *)
(* WebhookSend (the reply is sent and the response returned).              *)
(***************************************************************************)
Answer(d, status, note, delayed) ==
  deliveries' = [deliveries EXCEPT ![d] =
    [@ EXCEPT !.pc = "done", !.status = status, !.note = note,
              !.delayed = delayed]]

\* the handler's locals that no later step reads
Forget(delivery) == [delivery EXCEPT !.filterTime = 0, !.verifiedAt = 0]

\* a dedup check that finds no message id
hasProcessed_never(messageId) == FALSE

\* processedMessages.has(messageId)
hasProcessed(messageId) == processedMessages[messageId] # 0

WebhookReceive(d, request) ==
  LET securityResult == validateWebhookSecurity(request)
      validationResult ==
        verifyWebhookSignatureDetailed(request.rawBody, request.signature,
                                       WHATSAPP_APP_SECRET)
      message == request.rawBody
      phoneRateLimit == messageRateLimit.stamp[message.from]
      messageCount == messageRateLimit.count[message.from]
      inWindow == phoneRateLimit > 0 /\ (now - phoneRateLimit) < RATE_LIMIT_WINDOW
      extractedCode == extractVerificationCode(message.text)
      counted ==
        IF inWindow
        THEN [messageRateLimit EXCEPT !.count[message.from] = messageCount + 1]
        ELSE [messageRateLimit EXCEPT !.stamp[message.from] = now,
                                      !.count[message.from] = 1]
      accepted == [deliveries[d] EXCEPT !.id = message.id,
                                        !.from = message.from,
                                        !.reached = TRUE]
  IN
  /\ deliveries[d].pc = "idle"
  /\ UNCHANGED <<now, lastSweep, verification_codes, users, verifyWrites,
                 authCookie, last, csrfVars, tokenVars, auxVars>>
  /\ IF ~securityResult
     THEN /\ Answer(d, 401, "webhook_rejected", FALSE)
          /\ UNCHANGED <<processedMessages, messageRateLimit>>
     ELSE IF ~validationResult
     THEN /\ Answer(d, 401, "invalid_signature", TRUE)
          /\ UNCHANGED <<processedMessages, messageRateLimit>>
     ELSE IF message.kind # "message"
     THEN /\ Answer(d, 200, "no message", FALSE)
          /\ UNCHANGED <<processedMessages, messageRateLimit>>
     ELSE IF hasProcessed(message.id)
     THEN /\ deliveries' = [deliveries EXCEPT ![d] =
               [@ EXCEPT !.pc = "done", !.status = 200,
                         !.note = "Duplicate ignored",
                         !.id = message.id, !.from = message.from]]
          /\ UNCHANGED <<processedMessages, messageRateLimit>>
     ELSE IF inWindow /\ messageCount >= MAX_MESSAGES_PER_MINUTE
     THEN /\ deliveries' = [deliveries EXCEPT ![d] =
               [@ EXCEPT !.pc = "done", !.status = 200,
                         !.note = "Rate limited", !.delayed = TRUE,
                         !.id = message.id, !.from = message.from]]
          /\ UNCHANGED <<processedMessages, messageRateLimit>>
     ELSE /\ messageRateLimit' = counted
          /\ processedMessages' = [processedMessages EXCEPT ![message.id] = now]
          /\ IF extractedCode = Absent
             THEN deliveries' = [deliveries EXCEPT ![d] =
                    [accepted EXCEPT !.pc = "done", !.status = 200,
                                     !.note = "ignored"]]
             ELSE IF ~validateVerificationCode(extractedCode)
             THEN deliveries' = [deliveries EXCEPT ![d] =
                    [accepted EXCEPT !.pc = "send", !.reply = "format",
                                     !.code = extractedCode]]
             ELSE deliveries' = [deliveries EXCEPT ![d] =
                    [accepted EXCEPT !.pc = "lookup",
                                     !.code = toUpperCase(extractedCode),
                                     !.filterTime = now]]

\* a lookup that does not look at the verified flag of the record it found
WebhookLookup_noVerifiedBranch(d) ==
  LET row == RowOf(verification_codes, deliveries[d].code)
      found == row # NoRow /\ row.expires_at > deliveries[d].filterTime
  IN
  /\ deliveries[d].pc = "lookup"
  /\ deliveries' = [deliveries EXCEPT ![d] =
       IF ~found THEN Forget([@ EXCEPT !.pc = "send", !.reply = "invalid"])
       ELSE [@ EXCEPT !.pc = "update", !.filterTime = 0, !.verifiedAt = now]]
  /\ UNCHANGED <<now, lastSweep, verification_codes, users, processedMessages,
                 messageRateLimit, verifyWrites, authCookie, last,
                 csrfVars, tokenVars, auxVars>>

\* .eq('code', code).gt('expires_at', <time the query was built>).single()
WebhookLookup(d) ==
  LET row == RowOf(verification_codes, deliveries[d].code)
      found == row # NoRow /\ row.expires_at > deliveries[d].filterTime
  IN
  /\ deliveries[d].pc = "lookup"
  /\ deliveries' = [deliveries EXCEPT ![d] =
       IF ~found THEN Forget([@ EXCEPT !.pc = "send", !.reply = "invalid"])
       ELSE IF row.verified
       THEN Forget([@ EXCEPT !.pc = "send", !.reply = "already"])
       ELSE [@ EXCEPT !.pc = "update", !.filterTime = 0, !.verifiedAt = now]]
  /\ UNCHANGED <<now, lastSweep, verification_codes, users, processedMessages,
                 messageRateLimit, verifyWrites, authCookie, last,
                 csrfVars, tokenVars, auxVars>>

\* .update({verified: true, verified_at}).eq('code', code)
WebhookUpdate(d) ==
  LET code == deliveries[d].code
  IN
  /\ deliveries[d].pc = "update"
  /\ verification_codes' = [verification_codes EXCEPT ![code] =
       [@ EXCEPT !.verified = TRUE, !.verified_at = deliveries[d].verifiedAt]]
  /\ verifyWrites' = [verifyWrites EXCEPT ![code] = @ + 1]
  /\ deliveries' = [deliveries EXCEPT ![d] =
       Forget([@ EXCEPT !.pc = "send", !.reply = "success"])]
  /\ UNCHANGED <<now, lastSweep, users, processedMessages, messageRateLimit,
                 authCookie, last, csrfVars, tokenVars, auxVars>>

\* a handler that acknowledges the message whether or not the reply went out
WebhookSend_alwaysSuccess(d, delivered) ==
  /\ deliveries[d].pc = "send"
  /\ deliveries' = [deliveries EXCEPT ![d] =
       [@ EXCEPT !.pc = "done", !.sent = TRUE, !.status = 200,
                 !.note = "success"]]
  /\ UNCHANGED <<now, lastSweep, verification_codes, users, processedMessages,
                 messageRateLimit, verifyWrites, authCookie, last,
                 csrfVars, tokenVars, auxVars>>

\* await sendWhatsAppMessage(from, ...): it rethrows a failed send, and the
\* handler's catch answers with the generic 500
WebhookSend(d, delivered) ==
  /\ deliveries[d].pc = "send"
  /\ deliveries' = [deliveries EXCEPT ![d] =
       [@ EXCEPT !.pc = "done", !.sent = TRUE,
                 !.status = IF delivered THEN 200 ELSE 500,
                 !.note = IF delivered THEN "success" ELSE "INTERNAL_ERROR"]]
  /\ UNCHANGED <<now, lastSweep, verification_codes, users, processedMessages,
                 messageRateLimit, verifyWrites, authCookie, last,
                 csrfVars, tokenVars, auxVars>>

\* the response has been returned: the slot is free for the next POST
WebhookReturn(d) ==
  /\ deliveries[d].pc = "done"
  /\ deliveries' = [deliveries EXCEPT ![d] = IdleDelivery]
  /\ UNCHANGED <<now, lastSweep, verification_codes, users, processedMessages,
                 messageRateLimit, verifyWrites, authCookie, last,
                 csrfVars, tokenVars, auxVars>>

\* the setInterval sweep of processedMessages and messageRateLimit; the
\* `${from}_count` entries hold small counts, always below oneMinuteAgo
Sweep ==
  /\ now - lastSweep >= SWEEP_INTERVAL
  /\ lastSweep' = now
  /\ processedMessages' =
       [id \in DOMAIN processedMessages |->
          IF processedMessages[id] < now - DEDUP_RETENTION
          THEN 0 ELSE processedMessages[id]]
  /\ messageRateLimit' =
       [stamp |-> [p \in Phones |->
                     IF messageRateLimit.stamp[p] < now - RATE_LIMIT_WINDOW
                     THEN 0 ELSE messageRateLimit.stamp[p]],
        count |-> [p \in Phones |-> 0]]
  /\ UNCHANGED <<now, verification_codes, users, deliveries, verifyWrites,
                 authCookie, last, csrfVars, tokenVars, auxVars>>

Tick ==
  /\ now < MaxTime
  /\ now' = now + 1
  /\ UNCHANGED <<lastSweep, verification_codes, users, processedMessages,
                 messageRateLimit, deliveries, verifyWrites, authCookie, last,
                 csrfVars, tokenVars, auxVars>>

(***************************************************************************)
(* API routes, called by one browser that keeps the auth_token cookie      *)
(***************************************************************************)
Respond(op, status, error, cookie) ==
  /\ last' = Response(op, status, error, cookie)
  /\ authCookie' = IF cookie = NoToken THEN authCookie ELSE cookie

\* a token signed by somebody who does not hold JWT_SECRET
AttackerToken(code, phone, t) ==
  LET token == generateSecureToken([code |-> code, name |-> Name(phone),
                                    whatsappNumber |-> phone,
                                    verified |-> TRUE], t)
  IN [token EXCEPT !.signature.mac =
        Hmac("HS256", OtherKey, <<token.header, token.payload>>)]

\* the jar's token with another subject under the unchanged signature
ReplaceSubject(token, code) ==
  IF token.parts = 3 THEN [token EXCEPT !.payload.json.userId = code]
  ELSE token

TokenChoices ==
  {NoToken, authCookie, ReplaceSubject(authCookie, Code1),
   AttackerToken(Code1, P2, now)}

\* the requests of the browser: the inputs under a matching CSRF pair, and
\* one request under a failing pair
ResetPasswordInputs ==
  {<<CsrfMatching, phone, Code1>> : phone \in PhoneInputs}
    \cup {<<CsrfMatching, P1, Code2>>, <<CsrfFailing, P1, Code1>>}

VerifyAndAuthInputs ==
  {<<CsrfMatching, code>> : code \in BodyCodes}
    \cup {<<CsrfFailing, Code1>>}

SessionTokens == {NoToken, authCookie, AttackerToken(Code1, P2, now)}

SetPasswordInputs ==
  {<<CsrfMatching, authCookie, password, code>> :
     password \in BodyPasswords, code \in BodyCodes}
    \cup {<<CsrfMatching, token, NewPassword, Code1>> : token \in TokenChoices}
    \cup {<<CsrfFailing, authCookie, NewPassword, Code1>>}

\* a select without the expires_at filter
selectUnexpired_noExpiry(code, t) == RowOf(verification_codes, code)

\* .eq('code', code).gt('expires_at', now).single() of verify-and-auth and
\* of the session route
selectUnexpired(code, t) ==
  LET row == RowOf(verification_codes, code)
  IN IF row # NoRow /\ row.expires_at > t THEN row ELSE NoRow

\* POST /api/reset-password; candidate is the code the generation loop ends
\* with: a code a probe found free, or, after ten collisions, the eleventh
\* draw, which no probe has looked at
ResetPassword(request, phone, candidate) ==
  LET sanitizedPhone == sanitizeUserInput(phone)
      validatedPhone == validatePhoneNumber(sanitizedPhone)
      existingUser == IF validatedPhone \in Phones
                      THEN users[validatedPhone] ELSE NoRow
      secureToken == generateSecureToken(
                       [code |-> candidate, name |-> existingUser.name,
                        whatsappNumber |-> validatedPhone,
                        verified |-> FALSE], now)
  IN
  /\ UNCHANGED <<now, lastSweep, users, processedMessages, messageRateLimit,
                 deliveries, verifyWrites, csrfVars, tokenVars, auxVars>>
  /\ IF ~validateDoubleSubmitCSRF(request)
     THEN /\ Respond("reset-password", 403, "CSRF_INVALID", NoToken)
          /\ UNCHANGED verification_codes
     ELSE IF validatedPhone = Absent
     THEN /\ Respond("reset-password", 400, "INVALID_INPUT", NoToken)
          /\ UNCHANGED verification_codes
     ELSE IF existingUser = NoRow \/ ~existingUser.verified
     THEN /\ Respond("reset-password", 404, "ACCOUNT_NOT_FOUND", NoToken)
          /\ UNCHANGED verification_codes
     ELSE IF verification_codes[candidate] # NoRow
     THEN /\ Respond("reset-password", 500, "RECORD_EXISTS", NoToken)
          /\ UNCHANGED verification_codes
     ELSE /\ verification_codes' = [verification_codes EXCEPT ![candidate] =
               [code |-> candidate, name |-> existingUser.name,
                whatsapp_number |-> validatedPhone, verified |-> FALSE,
                expires_at |-> now + CODE_TTL, verified_at |-> 0]]
          /\ Respond("reset-password", 200, "", secureToken)

\* what POST /api/verify-and-auth answers in the current state: status,
\* error code, and the token it sets (NoToken: none)
Outcome(status, error, cookie) ==
  [status |-> status, error |-> error, cookie |-> cookie]

verifyAndAuthResult(request, code) ==
  LET sanitizedCode == sanitizeUserInput(code)
      verificationData == selectUnexpired(sanitizedCode, now)
      secureToken == generateSecureToken(
                       [code |-> verificationData.code,
                        name |-> verificationData.name,
                        whatsappNumber |-> verificationData.whatsapp_number,
                        verified |-> TRUE], now)
  IN
  IF ~validateDoubleSubmitCSRF(request)
  THEN Outcome(403, "CSRF_INVALID", NoToken)
  ELSE IF sanitizedCode = Absent \/ sanitizedCode = <<>>
  THEN Outcome(400, "INVALID_INPUT", NoToken)
  ELSE IF verificationData = NoRow
  THEN Outcome(500, "RECORD_NOT_FOUND", NoToken)
  ELSE IF ~verificationData.verified
  THEN Outcome(400, "VERIFICATION_FAILED", NoToken)
  ELSE Outcome(200, "", secureToken)

\* POST /api/verify-and-auth
VerifyAndAuth(request, code) ==
  /\ UNCHANGED <<now, lastSweep, verification_codes, users, processedMessages,
                 messageRateLimit, deliveries, verifyWrites, csrfVars,
                 tokenVars, auxVars>>
  /\ \E result \in {verifyAndAuthResult(request, code)} :
       Respond("verify-and-auth", result.status, result.error, result.cookie)

\* GET /api/session
GetSession(token) ==
  LET sessionData == verifySecureTokenEdge(token, now)
      data == selectUnexpired(sessionData.code, now)
      newToken == generateSecureTokenEdge(
                    [code |-> sessionData.code, name |-> sessionData.name,
                     whatsappNumber |-> sessionData.whatsappNumber,
                     verified |-> data.verified], now)
  IN
  /\ UNCHANGED <<now, lastSweep, verification_codes, users, processedMessages,
                 messageRateLimit, deliveries, verifyWrites, csrfVars,
                 tokenVars, auxVars>>
  /\ IF token = NoToken
     THEN Respond("session", 401, "AUTH_REQUIRED", NoToken)
     ELSE IF sessionData = Null
     THEN Respond("session", 401, "AUTH_INVALID", NoToken)
     ELSE IF Len(sessionData.code) > CODE_LENGTH_LIMIT
     THEN Respond("session", 200, "", NoToken)
     ELSE IF data = NoRow
     THEN Respond("session", 500, "RECORD_NOT_FOUND", NoToken)
     ELSE IF data.verified # sessionData.verified
     THEN Respond("session", 200, "", newToken)
     ELSE Respond("session", 200, "", NoToken)

\* what POST /api/set-password answers and writes in the current state:
\* status, error code, the token it sets, and the users table it leaves
setPasswordResult(request, authToken, password, code) ==
  LET sessionData == verifySecureToken(authToken, now)
      sanitizedPassword == sanitizeUserInput(password)
      sanitizedCode == sanitizeUserInput(code)
      row == RowOf(verification_codes, sanitizedCode)
      verificationData ==
        IF row # NoRow /\ row.verified /\ row.expires_at > now
        THEN row ELSE NoRow
      validatedPhone == verificationData.whatsapp_number
      passwordHash == hashPassword(sanitizedPassword)
      existingUser == users[validatedPhone]
      secureToken == generateSecureToken(
                       [code |-> verificationData.code,
                        name |-> verificationData.name,
                        whatsappNumber |-> verificationData.whatsapp_number,
                        verified |-> TRUE], now)
      Refused(status, error) ==
        [status |-> status, error |-> error, cookie |-> NoToken,
         users |-> users]
  IN
  IF ~validateDoubleSubmitCSRF(request)
  THEN Refused(403, "CSRF_INVALID")
  ELSE IF authToken = NoToken
  THEN Refused(401, "AUTH_REQUIRED")
  ELSE IF sessionData = Null
  THEN Refused(401, "AUTH_INVALID")
  ELSE IF ~validatePassword(sanitizedPassword)
  THEN Refused(400, "INVALID_INPUT")
  ELSE IF sessionData.code # sanitizedCode
  THEN Refused(403, "UNAUTHORIZED")
  ELSE IF verificationData = NoRow
  THEN Refused(500, "RECORD_NOT_FOUND")
  ELSE [status |-> 200, error |-> "", cookie |-> secureToken,
        users |-> [users EXCEPT ![validatedPhone] =
                     IF existingUser # NoRow
                     THEN [@ EXCEPT !.password_hash = passwordHash]
                     ELSE UserRow(validatedPhone, verificationData.name,
                                  passwordHash)]]

\* POST /api/set-password
SetPassword(request, authToken, password, code) ==
  /\ UNCHANGED <<now, lastSweep, verification_codes, processedMessages,
                 messageRateLimit, deliveries, verifyWrites, csrfVars,
                 tokenVars, auxVars>>
  /\ \E result \in {setPasswordResult(request, authToken, password, code)} :
       /\ users' = result.users
       /\ Respond("set-password", result.status, result.error, result.cookie)

(***************************************************************************)
(* The token functions on their own: claims are minted into a token, the   *)
(* token or a copy with one segment changed is verified at a later time    *)
(***************************************************************************)
TokenDatas ==
  {[code |-> c, name |-> Name(p), whatsappNumber |-> p, verified |-> v] :
     c \in Codes \cup {sessionId}, p \in Phones, v \in BOOLEAN}

NoOut == [done |-> FALSE, at |-> 0, token |-> NoToken, api |-> Null,
          middleware |-> Null, secure |-> Null]

\* copies of a token in which exactly one segment differs
TamperedHeader(token) ==
  {[token EXCEPT !.header.alg = "none"],
   [token EXCEPT !.header.alg = "HS512"],
   [token EXCEPT !.header.typ = "JWS"]}

TamperedPayload(token) ==
  {[token EXCEPT !.payload.json.userId = UnknownCode],
   [token EXCEPT !.payload.json.exp = @ + JWT_EXPIRES_IN],
   [token EXCEPT !.payload.pad = 1]}

TamperedSignature(token) ==
  {[token EXCEPT !.signature.mac =
      Hmac("HS256", OtherKey, <<token.header, token.payload>>)],
   [token EXCEPT !.signature.pad = 1]}

TokenMint ==
  /\ tkToken = NoToken
  /\ tkNow <= MaxIssueTime
  /\ tkToken' = generateSecureToken(tkData, tkNow)
  /\ tkPresented' = tkToken'
  /\ UNCHANGED <<tkData, tkNow, tkOut, flowVars, csrfVars, auxVars>>

\* the values of JWT_EXPIRES_IN a server is run with: unset, 1h, 24h, 48h
ConfiguredExpiries == {<<>>, <<60>>, <<1440>>, <<2880>>}

\* a server run with JWT_EXPIRES_IN = env mints the token of a session
TokenMintUnder(env) ==
  /\ tkToken = NoToken
  /\ tkToken' = generateAccessTokenUnder(env,
                   [userId |-> tkData.code, username |-> tkData.name,
                    phone |-> tkData.whatsappNumber, role |-> "user"], tkNow)
  /\ tkPresented' = tkToken'
  /\ UNCHANGED <<tkData, tkNow, tkOut, flowVars, csrfVars, auxVars>>

\* minutes, hours and days pass while the browser holds the token
TokenWait(minutes) ==
  /\ tkToken # NoToken
  /\ tkOut = NoOut
  /\ tkNow + minutes <= MaxConfigTime
  /\ tkNow' = tkNow + minutes
  /\ UNCHANGED <<tkData, tkToken, tkPresented, tkOut, flowVars, csrfVars, auxVars>>

TokenTamper ==
  /\ tkToken # NoToken
  /\ tkPresented = tkToken
  /\ tkOut = NoOut
  /\ tkPresented' \in TamperedHeader(tkToken) \cup TamperedPayload(tkToken)
                        \cup TamperedSignature(tkToken)
  /\ UNCHANGED <<tkData, tkToken, tkNow, tkOut, flowVars, csrfVars, auxVars>>

TokenTick ==
  /\ tkNow < MaxTokenTime
  /\ tkOut = NoOut
  /\ tkNow' = tkNow + 1
  /\ UNCHANGED <<tkData, tkToken, tkPresented, tkOut, flowVars, csrfVars, auxVars>>

TokenVerify ==
  /\ tkToken # NoToken
  /\ tkOut = NoOut
  /\ tkOut' = [done |-> TRUE, at |-> tkNow, token |-> tkPresented,
               api |-> verifySecureToken(tkPresented, tkNow),
               middleware |-> verifyAccessTokenMiddleware(tkPresented, tkNow),
               secure |-> verifyAccessTokenSecure(tkPresented, tkNow)]
  /\ UNCHANGED <<tkData, tkToken, tkPresented, tkNow, flowVars, csrfVars, auxVars>>

(***************************************************************************)
(* The CSRF guard on its own                                               *)
(***************************************************************************)
CsrfMethods == {"GET", "HEAD", "OPTIONS", "POST", "PUT", "DELETE"}
CsrfValues == {Absent, <<>>, CsrfA, CsrfB, <<"a">>, <<"a","2">>}

CsrfValidate ==
  /\ csrfResult = "none"
  /\ csrfResult' = IF validateDoubleSubmitCSRF(csrfRequest)
                   THEN "true" ELSE "false"
  /\ UNCHANGED <<csrfRequest, flowVars, tokenVars, auxVars>>

(***************************************************************************)
(* Rate limiter (lib/rate-limiting checkRateLimit), time in milliseconds   *)
(***************************************************************************)
RATE_LIMITS ==
  [auth |-> [windowMs |-> AUTH_WINDOW_MS, maxRequests |-> AUTH_MAX_REQUESTS,
             prefix |-> "auth"],
   passwordReset |-> [windowMs |-> PASSWORD_RESET_WINDOW_MS,
                      maxRequests |-> PASSWORD_RESET_MAX_REQUESTS,
                      prefix |-> "password_reset"]]

\* a request of the limiter: the forwarded address and the user agent, the
\* latter as its first 20 characters and the rest
RateRequest(ip, head, rest) == [ip |-> ip, userAgent |-> [head |-> head, rest |-> rest]]
RateRequests ==
  {RateRequest("10.0.0.1", "Mozilla", ""),
   RateRequest("10.0.0.1", "Mozilla", "/5.0"),
   RateRequest("10.0.0.2", "Mozilla", "")}

\* config.keyGenerator(request): `${prefix}:${ip}:${userAgent.slice(0, 20)}`
keyGenerator(limitType, request) ==
  <<RATE_LIMITS[limitType].prefix, request.ip, request.userAgent.head>>

RateKeys == {keyGenerator(t, r) : t \in DOMAIN RATE_LIMITS, r \in RateRequests}
NoEntry == [none |-> TRUE]

\* rounding down in place of Math.ceil
ceilSeconds_floor(ms) == ms \div 1000

\* Math.ceil(ms / 1000) for ms >= 0
ceilSeconds(ms) == (ms + 999) \div 1000

\* a window that never ends
windowExpired_never(entry, t) == FALSE

\* now > entry.resetTime
windowExpired(entry, t) == t > entry.resetTime

\* a sweep that deletes an entry at the instant of its resetTime already
cleanupExpiredEntries_atReset(store, t) ==
  [k \in DOMAIN store |->
     IF store[k] # NoEntry /\ t >= store[k].resetTime THEN NoEntry
     ELSE store[k]]

\* the store after cleanupExpiredEntries() at time t
cleanupExpiredEntries(store, t) ==
  [k \in DOMAIN store |->
     IF store[k] # NoEntry /\ windowExpired(store[k], t) THEN NoEntry
     ELSE store[k]]

\* a read-modify-write whose write carries the count that was read
checkRateLimit_staleWrite(store, request, limitType, t) ==
  LET config == RATE_LIMITS[limitType]
      key == keyGenerator(limitType, request)
      cleaned == cleanupExpiredEntries(store, t)
      entry == cleaned[key]
      fresh == [count |-> 1, resetTime |-> t + config.windowMs,
                lastRequest |-> t]
  IN
  IF entry = NoEntry \/ windowExpired(entry, t)
  THEN [allowed |-> TRUE, remaining |-> config.maxRequests - 1,
        resetTime |-> t + config.windowMs, retryAfter |-> -1,
        store |-> [cleaned EXCEPT ![key] = fresh]]
  ELSE IF entry.count >= config.maxRequests
  THEN [allowed |-> FALSE, remaining |-> 0, resetTime |-> entry.resetTime,
        retryAfter |-> ceilSeconds(entry.resetTime - t),
        store |-> cleaned]
  ELSE [allowed |-> TRUE,
        remaining |-> config.maxRequests - (entry.count + 1),
        resetTime |-> entry.resetTime, retryAfter |-> -1,
        store |-> [cleaned EXCEPT ![key] =
                     [entry EXCEPT !.count = IF entry.lastRequest = t
                                             THEN entry.count
                                             ELSE entry.count + 1,
                                   !.lastRequest = t]]]

\* checkRateLimit(request, limitType) at time t on a store: what it returns
\* and the store it leaves
checkRateLimit(store, request, limitType, t) ==
  LET config == RATE_LIMITS[limitType]
      key == keyGenerator(limitType, request)
      cleaned == cleanupExpiredEntries(store, t)
      entry == cleaned[key]
      fresh == [count |-> 1, resetTime |-> t + config.windowMs,
                lastRequest |-> t]
  IN
  IF entry = NoEntry
  THEN [allowed |-> TRUE, remaining |-> config.maxRequests - 1,
        resetTime |-> t + config.windowMs, retryAfter |-> -1,
        store |-> [cleaned EXCEPT ![key] = fresh]]
  ELSE IF windowExpired(entry, t)
  THEN [allowed |-> TRUE, remaining |-> config.maxRequests - 1,
        resetTime |-> t + config.windowMs, retryAfter |-> -1,
        store |-> [cleaned EXCEPT ![key] = fresh]]
  ELSE IF entry.count >= config.maxRequests
  THEN [allowed |-> FALSE, remaining |-> 0, resetTime |-> entry.resetTime,
        retryAfter |-> ceilSeconds(entry.resetTime - t),
        store |-> cleaned]
  ELSE [allowed |-> TRUE,
        remaining |-> config.maxRequests - (entry.count + 1),
        resetTime |-> entry.resetTime, retryAfter |-> -1,
        store |-> [cleaned EXCEPT ![key] =
                     [entry EXCEPT !.count = entry.count + 1,
                                   !.lastRequest = t]]]

NoRateOut == [called |-> FALSE]

\* one call of checkRateLimit; rlOut keeps the key, the time, the entry the
\* key had and the result
RateCheck(request) ==
  /\ \E result \in {checkRateLimit(rlStore, request, rlType, rlNow)} :
       /\ rlStore' = result.store
       /\ rlOut' = [called |-> TRUE,
                    key |-> keyGenerator(rlType, request),
                    at |-> rlNow,
                    before |-> rlStore[keyGenerator(rlType, request)],
                    allowed |-> result.allowed,
                    remaining |-> result.remaining,
                    resetTime |-> result.resetTime,
                    retryAfter |-> result.retryAfter]
  /\ UNCHANGED <<rlType, rlNow, rlSteps, flowVars, csrfVars, tokenVars,
                 studyVars>>

\* setInterval(cleanupExpiredEntries, 5 * 60 * 1000)
RateCleanup ==
  /\ rlStore' = cleanupExpiredEntries(rlStore, rlNow)
  /\ rlStore' # rlStore
  /\ UNCHANGED <<rlType, rlNow, rlSteps, rlOut, flowVars, csrfVars, tokenVars,
                 studyVars>>

\* the clock moves by a millisecond or by a window less a millisecond
RateJumps == {1, RATE_LIMITS[rlType].windowMs - 1}

RateTick ==
  /\ rlSteps < MaxRateSteps
  /\ rlSteps' = rlSteps + 1
  /\ \E jump \in RateJumps : rlNow' = rlNow + jump
  /\ UNCHANGED <<rlType, rlStore, rlOut, flowVars, csrfVars, tokenVars,
                 studyVars>>

(***************************************************************************)
(* Password login (POST /api/auth-password)                                *)
(***************************************************************************)
\* the browser of the routes, as the rate limiter sees it
BrowserClient == RateRequest("10.0.0.1", "Mozilla", "")

AuthPasswordInputs ==
  {<<CsrfMatching, phone, password>> :
     phone \in Phones, password \in {NewPassword, InitialPassword}}
    \cup {<<CsrfMatching, P2, WeakPassword>>, <<CsrfFailing, P2, NewPassword>>,
          <<CsrfMatching, <<"1","2","3">>, NewPassword>>}

\* An error value, as the error responses see it: whether it is truthy, and
\* its own enumerable properties, which are what the object spread of
\* sanitizeErrorForLogging copies.
NoError == [truthy |-> FALSE, properties |-> {}]

\* the error of a .single() query that matched no row
NoRowsError ==
  [truthy |-> TRUE,
   properties |-> {<<"code", "PGRST116">>,
                   <<"details", "The result contains 0 rows">>}]

\* new Error('Invalid password'): message and stack are not enumerable
InvalidPasswordError == [truthy |-> TRUE, properties |-> {}]

\* [error.message], the array handleValidationError is given
ValidationErrors(message) ==
  [truthy |-> TRUE, properties |-> {<<"0", message>>}]

sensitiveFields ==
  {"password", "password_hash", "token", "secret", "key", "authorization",
   "cookie", "session", "auth", "jwt", "csrf", "api_key", "access_token",
   "refresh_token", "private_key", "client_secret"}

\* none of the errors above has a string property named message
sanitizeErrorForLogging(error) ==
  {<<property[1],
     IF property[1] \in sensitiveFields THEN "[REDACTED]" ELSE property[2]>> :
     property \in error.properties}

NoDebug == [included |-> FALSE, object |-> {}]

\* the status and the JSON body; the body's error text is
\* SECURE_ERROR_MESSAGES[errorType], one text per code
createSecureErrorResponse(errorType, statusCode, originalError) ==
  [status |-> statusCode,
   body |-> [success |-> FALSE, code |-> errorType,
             debug |-> IF nodeEnv = "development" /\ originalError.truthy
                       THEN [included |-> TRUE,
                             object |-> sanitizeErrorForLogging(originalError)]
                       ELSE NoDebug]]

\* an authentication failure that tells a missing row from the rest
handleAuthError_byCause(error) ==
  IF error = NoRowsError
  THEN createSecureErrorResponse("RECORD_NOT_FOUND", 404, error)
  ELSE createSecureErrorResponse("AUTH_INVALID", 401, error)

handleAuthError(error) == createSecureErrorResponse("AUTH_INVALID", 401, error)

handleValidationError(errors) ==
  createSecureErrorResponse("INVALID_INPUT", 400, errors)

handleCSRFError == createSecureErrorResponse("CSRF_INVALID", 403, NoError)

handleRateLimitError(retryAfter) ==
  [status |-> 429,
   body |-> [success |-> FALSE, code |-> "RATE_LIMIT_EXCEEDED",
             retryAfter |-> retryAfter]]

NoLoginResponse == [status |-> 0, body |-> [success |-> FALSE]]

\* what POST /api/auth-password answers in the current state (its status
\* and body), the token it sets and the limiter store it leaves
authPasswordResult(request, phone, password) ==
  LET rateLimit == checkRateLimit(rlStore, BrowserClient, "auth",
                                  now * MS_PER_MINUTE)
      sanitizedPhone == sanitizeUserInput(phone)
      sanitizedPassword == sanitizeUserInput(password)
      validatedPhone == validatePhoneNumber(sanitizedPhone)
      user == IF validatedPhone \in Phones /\ users[validatedPhone] # NoRow
                 /\ users[validatedPhone].verified
              THEN users[validatedPhone] ELSE NoRow
      secureToken == generateSecureToken(
                       [code |-> sessionId, name |-> user.name,
                        whatsappNumber |-> user.phone, verified |-> TRUE],
                       now)
      Answered(response, cookie) ==
        [status |-> response.status,
         error |-> IF response.body.success THEN "" ELSE response.body.code,
         cookie |-> cookie, store |-> rateLimit.store, response |-> response]
  IN
  IF ~rateLimit.allowed
  THEN Answered(handleRateLimitError(IF rateLimit.retryAfter \in {0, -1}
                                     THEN 900 ELSE rateLimit.retryAfter),
                NoToken)
  ELSE IF ~validateDoubleSubmitCSRF(request)
  THEN Answered(handleCSRFError, NoToken)
  ELSE IF validatedPhone = Absent
  THEN Answered(handleValidationError(ValidationErrors("phone")), NoToken)
  ELSE IF ~validatePassword(sanitizedPassword)
  THEN Answered(handleValidationError(ValidationErrors("password")), NoToken)
  ELSE IF user = NoRow
  THEN Answered(handleAuthError(NoRowsError), NoToken)
  ELSE IF ~comparePassword(sanitizedPassword, user.password_hash)
  THEN Answered(handleAuthError(InvalidPasswordError), NoToken)
  ELSE Answered([status |-> 200,
                 body |-> [success |-> TRUE,
                           user |-> [name |-> user.name,
                                     phone |-> user.phone]]],
                secureToken)

AuthPassword(request, phone, password) ==
  /\ UNCHANGED <<now, lastSweep, verification_codes, users, processedMessages,
                 messageRateLimit, deliveries, verifyWrites, csrfVars,
                 tokenVars, rlType, rlNow, rlSteps, rlOut, extractVars,
                 issueVars, raceVars, nodeEnv, clientVars, setVars>>
  /\ \E result \in {authPasswordResult(request, phone, password)} :
       /\ rlStore' = result.store
       /\ loginResponse' = result.response
       /\ Respond("auth-password", result.status, result.error, result.cookie)

(***************************************************************************)
(* Code extraction on its own (lib/whatsapp.ts extractVerificationCode):   *)
(* message texts are words joined by one separator each                    *)
(***************************************************************************)
ExtractWords ==
  {<<>>,
   <<"a","b","1","2","c","3">>,
   <<"X","7","K","2","M","9">>,
   <<"P","L","E","A","S","E">>,
   <<"1","2","3","4","5","6">>,
   <<"a","b","1","2","c","3","x">>,
   <<"a","1","b","2","c">>}
ExtractSeparators == {" ", "-", "_"}

RECURSIVE ExtractTexts(_)
ExtractTexts(n) ==
  IF n = 1 THEN ExtractWords
  ELSE ExtractTexts(n - 1) \cup
       {text \o <<sep>> \o word :
          text \in ExtractTexts(n - 1), sep \in ExtractSeparators,
          word \in ExtractWords}

ExtractMessages == ExtractTexts(MaxWords)

NoExtraction ==
  [done |-> FALSE, code |-> Absent, branch |-> "none", validated |-> Absent]

\* the webhook hands the text of a message to extractVerificationCode, and
\* the code it gets to validateVerificationCode; the value that function
\* returns is the code the lookup uses
Extract ==
  /\ ~exResult.done
  /\ \E extractedCode \in {extractVerificationCode(exMessage)} :
       exResult' =
         [done |-> TRUE, code |-> extractedCode,
          branch |-> IF extractedCode = Absent THEN "no code"
                     ELSE IF ~validateVerificationCode(extractedCode)
                          THEN "invalid code format"
                          ELSE "lookup",
          validated |-> IF extractedCode # Absent
                           /\ validateVerificationCode(extractedCode)
                        THEN toUpperCase(extractedCode) ELSE Absent]
  /\ UNCHANGED <<exMessage, issueVars, raceVars, loginVars, setVars, clientVars, rateVars, flowVars,
                 csrfVars, tokenVars>>

(***************************************************************************)
(* CSRF token issuance (GET of app/api/csrf-token/route.ts and of the      *)
(* second issuance handler), called by a browser that keeps the            *)
(* csrf-token cookie                                                       *)
(***************************************************************************)
\* values generateCSRFToken can return (64 random bytes, in hex)
GeneratedCsrfTokens == {CsrfA, CsrfB, <<"c","3">>}

\* the request carries the cookie the browser holds; age counts the minutes
\* since the cookie was set
NoIssueRequest == [userAgent |-> TRUE, csrfCookie |-> Absent, age |-> 0]
NoIssueResponse ==
  [endpoint |-> "none", status |-> 0, held |-> Absent, token |-> Absent,
   minted |-> FALSE, setCookie |-> Absent]

IssueResponse(endpoint, status, held, token, minted, setCookie) ==
  [endpoint |-> endpoint, status |-> status, held |-> held, token |-> token,
   minted |-> minted, setCookie |-> setCookie]

\* a JavaScript string used as a condition: absent and "" are falsy
truthy(value) == value # Absent /\ value # <<>>

\* app/api/csrf-token/route.ts GET: a token is generated and set on each call
GET_csrfToken(request, generated) ==
  IF ~request.userAgent
  THEN IssueResponse("csrf-token", 400, request.csrfCookie, Absent, FALSE,
                     Absent)
  ELSE IssueResponse("csrf-token", 200, request.csrfCookie, generated, TRUE,
                     generated)

\* the second handler: the token of the cookie is used when there is one
GET_csrfTokenExisting(request, generated) ==
  IF ~request.userAgent
  THEN IssueResponse("existing", 400, request.csrfCookie, Absent, FALSE,
                     Absent)
  ELSE LET existingToken == request.csrfCookie
       IN IF truthy(existingToken)
          THEN IssueResponse("existing", 200, existingToken, existingToken,
                             FALSE, Absent)
          ELSE IssueResponse("existing", 200, existingToken, generated, TRUE,
                             generated)

\* the browser stores the cookie of a Set-Cookie header
Browser(request, response) ==
  IF response.setCookie = Absent THEN request
  ELSE [request EXCEPT !.csrfCookie = response.setCookie, !.age = 0]

CsrfTokenGet(generated) ==
  /\ \E response \in {GET_csrfToken(issueRequest, generated)} :
       /\ issueResponse' = response
       /\ issueRequest' = Browser(issueRequest, response)
  /\ UNCHANGED <<extractVars, raceVars, loginVars, setVars, clientVars, rateVars, flowVars,
                 csrfVars, tokenVars>>

CsrfTokenGetExisting(generated) ==
  /\ \E response \in {GET_csrfTokenExisting(issueRequest, generated)} :
       /\ issueResponse' = response
       /\ issueRequest' = Browser(issueRequest, response)
  /\ UNCHANGED <<extractVars, raceVars, loginVars, setVars, clientVars, rateVars, flowVars,
                 csrfVars, tokenVars>>

\* a minute passes; the browser drops the cookie when Max-Age is reached
IssueTick ==
  /\ issueRequest.csrfCookie # Absent
  /\ issueRequest' =
       IF issueRequest.age + 1 < CSRF_COOKIE_MAX_AGE
       THEN [issueRequest EXCEPT !.age = @ + 1]
       ELSE [issueRequest EXCEPT !.csrfCookie = Absent, !.age = 0]
  /\ UNCHANGED <<issueResponse, extractVars, raceVars, loginVars, setVars, clientVars, rateVars, flowVars,
                 csrfVars, tokenVars>>

(***************************************************************************)
(* The page (lib/use-csrf.ts useCSRF and useAuthenticatedRequest,          *)
(* lib/csrf-client.ts) and its browser, which keeps the csrf-token cookie. *)
(* Time in minutes.  client.csrfToken is the React state, client.cache is  *)
(* csrfTokenCache (sessionStorage is written with the same lifetime), and  *)
(* client.cookie with client.cookieSetAt is the cookie of the jar.         *)
(***************************************************************************)
NoCache == [token |-> Absent, expiresAt |-> 0]

IdleClient ==
  [now |-> 0, csrfToken |-> Absent, cache |-> NoCache, cookie |-> Absent,
   cookieSetAt |-> 0, pc |-> "idle", header |-> Absent, fetches |-> 0,
   first |-> [status |-> 0, code |-> ""], status |-> 0, code |-> "",
   refreshed |-> FALSE, thrown |-> FALSE]

\* the csrf-token cookie the browser sends at time t
CookieSent(c, t) ==
  IF c.cookie # Absent /\ t < c.cookieSetAt + CSRF_COOKIE_MAX_AGE
  THEN c.cookie ELSE Absent

\* csrf-client getStoredCSRFToken at time t
getStoredCSRFToken(c, t) ==
  IF c.cache = NoCache THEN Absent
  ELSE IF t > c.cache.expiresAt THEN Absent
  ELSE c.cache.token

\* csrf-client getCSRFToken followed by the caller's setCsrfToken and
\* storeCSRFToken(token, 15 * 60): GET /api/csrf-token, the browser takes
\* the cookie, the token is cached for the expiresIn of the response
Refreshed(c, generated) ==
  LET response == GET_csrfToken([userAgent |-> TRUE,
                                 csrfCookie |-> CookieSent(c, c.now), age |-> 0],
                                generated)
  IN IF response.status # 200 \/ ~truthy(response.token) THEN c
     ELSE [c EXCEPT !.csrfToken = response.token,
                    !.cache = [token |-> response.token,
                               expiresAt |-> c.now + CSRF_TOKEN_EXPIRES_IN],
                    !.cookie = response.setCookie,
                    !.cookieSetAt = c.now]

\* what a route behind validateDoubleSubmitCSRF answers to the POST: the
\* 403 of handleCSRFError, or whatever the route does with the request
Fetched(c, outcome) ==
  LET request == [method |-> "POST", csrfHeader |-> c.header,
                  csrfCookie |-> CookieSent(c, c.now)]
      response == IF ~validateDoubleSubmitCSRF(request)
                  THEN [status |-> handleCSRFError.status,
                        code |-> handleCSRFError.body.code]
                  ELSE outcome
  IN [c EXCEPT !.fetches = @ + 1, !.status = response.status,
               !.code = response.code]

RouteOutcomes == {[status |-> 200, code |-> ""],
                  [status |-> 403, code |-> "UNAUTHORIZED"]}

\* the page is loaded: the state starts from the stored token
ClientMount ==
  /\ client.pc = "idle"
  /\ \E storedToken \in {getStoredCSRFToken(client, client.now)} :
       client' = [client EXCEPT
                    !.csrfToken = storedToken,
                    !.cache = IF storedToken = Absent THEN NoCache ELSE @]
  /\ UNCHANGED <<extractVars, issueVars, raceVars, loginVars, setVars, rateVars,
                 flowVars, csrfVars, tokenVars>>

\* useCSRF: the effect that refreshes when the state holds no token
ClientRefresh(generated) ==
  /\ client.pc = "idle"
  /\ client.csrfToken = Absent
  /\ client' = Refreshed(client, generated)
  /\ UNCHANGED <<extractVars, issueVars, raceVars, loginVars, setVars, rateVars,
                 flowVars, csrfVars, tokenVars>>

\* makeRequest up to its fetch: the token of the state, or a token fetched
\* now when the state holds none
MakeRequestBegin(generated) ==
  /\ client.pc = "idle"
  /\ \E c \in {IF truthy(client.csrfToken) THEN client
               ELSE Refreshed(client, generated)} :
       client' = IF ~truthy(c.csrfToken)
                 THEN [c EXCEPT !.pc = "done", !.thrown = TRUE]
                 ELSE [c EXCEPT !.pc = "fetch", !.header = c.csrfToken,
                                !.fetches = 0, !.refreshed = FALSE,
                                !.thrown = FALSE]
  /\ UNCHANGED <<extractVars, issueVars, raceVars, loginVars, setVars, rateVars,
                 flowVars, csrfVars, tokenVars>>

\* await fetch(url, ...): the request arrives and is answered
MakeRequestFetch(outcome) ==
  /\ client.pc = "fetch"
  /\ \E c \in {Fetched(client, outcome)} :
       client' = [c EXCEPT !.pc = "answered",
                           !.first = [status |-> c.status, code |-> c.code]]
  /\ UNCHANGED <<extractVars, issueVars, raceVars, loginVars, setVars, rateVars,
                 flowVars, csrfVars, tokenVars>>

\* makeRequest after the response: on status 403 with the code
\* CSRF_PROTECTION_FAILED a fresh token is fetched and the request sent once
\* more; every other response is returned as it is
MakeRequestSettle(generated, outcome) ==
  /\ client.pc = "answered"
  /\ client' =
       IF client.status = 403 /\ client.code = "CSRF_PROTECTION_FAILED"
       THEN LET fresh == Refreshed(client, generated)
            IN IF fresh = client
               THEN [client EXCEPT !.pc = "done", !.thrown = TRUE]
               ELSE [Fetched([fresh EXCEPT !.header = fresh.csrfToken],
                             outcome)
                       EXCEPT !.pc = "done", !.refreshed = TRUE]
       ELSE [client EXCEPT !.pc = "done"]
  /\ UNCHANGED <<extractVars, issueVars, raceVars, loginVars, setVars, rateVars,
                 flowVars, csrfVars, tokenVars>>

\* the promise of makeRequest has settled
MakeRequestReturn ==
  /\ client.pc = "done"
  /\ client' = [client EXCEPT !.pc = "idle", !.header = Absent,
                              !.fetches = 0, !.first = IdleClient.first,
                              !.status = 0, !.code = "",
                              !.refreshed = FALSE, !.thrown = FALSE]
  /\ UNCHANGED <<extractVars, issueVars, raceVars, loginVars, setVars, rateVars,
                 flowVars, csrfVars, tokenVars>>

ClientTick ==
  /\ client.now < MaxClientTime
  /\ client' = [client EXCEPT !.now = @ + 1]
  /\ UNCHANGED <<extractVars, issueVars, raceVars, loginVars, setVars, rateVars,
                 flowVars, csrfVars, tokenVars>>

(***************************************************************************)
(* POST /api/set-password step by step: the handler awaits the store at    *)
(* the select of the record, at the select of the user and at the write,   *)
(* and other calls run in between.  Each call has its own browser, whose   *)
(* session token is bound to the code it sends.  usersRows is the table    *)
(* users as a list of rows; phone is UNIQUE.                               *)
(***************************************************************************)
SetHandlers == {1, 2}

IdleSet ==
  [pc |-> "idle", code |-> Absent, phone |-> <<>>, name |-> "",
   passwordHash |-> hashPassword(<<>>), existingUser |-> 0, status |-> 0,
   error |-> "", cookie |-> NoToken]

\* the ids of the rows with this phone
UsersWithPhone(rows, phone) == {id \in DOMAIN rows : rows[id].phone = phone}

\* insert into a table without the UNIQUE constraint on phone
UsersInsert_noConstraint(rows, row) == [error |-> "", rows |-> Append(rows, row)]

\* .insert(row) into users: a second row of a phone is refused with 23505
UsersInsert(rows, row) ==
  IF UsersWithPhone(rows, row.phone) # {}
  THEN [error |-> "23505", rows |-> rows]
  ELSE [error |-> "", rows |-> Append(rows, row)]

SetAnswer(h, status, error, cookie) ==
  setCalls' = [setCalls EXCEPT ![h] =
    [@ EXCEPT !.pc = "done", !.status = status, !.error = error,
              !.cookie = cookie]]

\* up to the answer of the select on verification_codes
SetStart(h, request, authToken, password, code) ==
  LET sessionData == verifySecureToken(authToken, now)
      sanitizedPassword == sanitizeUserInput(password)
      sanitizedCode == sanitizeUserInput(code)
      row == RowOf(verification_codes, sanitizedCode)
      verificationData ==
        IF row # NoRow /\ row.verified /\ row.expires_at > now
        THEN row ELSE NoRow
  IN
  /\ setCalls[h].pc = "idle"
  /\ IF ~validateDoubleSubmitCSRF(request)
     THEN SetAnswer(h, 403, "CSRF_INVALID", NoToken)
     ELSE IF authToken = NoToken
     THEN SetAnswer(h, 401, "AUTH_REQUIRED", NoToken)
     ELSE IF sessionData = Null
     THEN SetAnswer(h, 401, "AUTH_INVALID", NoToken)
     ELSE IF ~validatePassword(sanitizedPassword)
     THEN SetAnswer(h, 400, "INVALID_INPUT", NoToken)
     ELSE IF sessionData.code # sanitizedCode
     THEN SetAnswer(h, 403, "UNAUTHORIZED", NoToken)
     ELSE IF verificationData = NoRow
     THEN SetAnswer(h, 500, "RECORD_NOT_FOUND", NoToken)
     ELSE setCalls' = [setCalls EXCEPT ![h] =
            [@ EXCEPT !.pc = "check", !.code = verificationData.code,
                      !.phone = verificationData.whatsapp_number,
                      !.name = verificationData.name,
                      !.passwordHash = hashPassword(sanitizedPassword)]]
  /\ UNCHANGED <<usersRows, flowVars, csrfVars, tokenVars, rateVars,
                 extractVars, issueVars, raceVars, loginVars, clientVars>>

\* .from('users').select('id, password_hash').eq('phone', ...).single():
\* no row and several rows both give PGRST116 and no data
SetCheck(h) ==
  LET found == UsersWithPhone(usersRows, setCalls[h].phone)
  IN
  /\ setCalls[h].pc = "check"
  /\ setCalls' = [setCalls EXCEPT ![h] =
       [@ EXCEPT !.pc = "write",
                 !.existingUser = IF Cardinality(found) = 1
                                  THEN CHOOSE id \in found : TRUE ELSE 0]]
  /\ UNCHANGED <<usersRows, flowVars, csrfVars, tokenVars, rateVars,
                 extractVars, issueVars, raceVars, loginVars, clientVars>>

\* the update of the row that was found, or the insert of a new row; then
\* the token and the response
SetWrite(h) ==
  LET call == setCalls[h]
      secureToken == generateSecureToken(
                       [code |-> call.code, name |-> call.name,
                        whatsappNumber |-> call.phone, verified |-> TRUE],
                       now)
      created == UsersInsert(usersRows,
                             UserRow(call.phone, call.name, call.passwordHash))
  IN
  /\ call.pc = "write"
  /\ IF call.existingUser # 0
     THEN /\ usersRows' = [usersRows EXCEPT ![call.existingUser] =
               [@ EXCEPT !.password_hash = call.passwordHash]]
          /\ SetAnswer(h, 200, "", secureToken)
     ELSE IF created.error # ""
     THEN /\ UNCHANGED usersRows
          /\ SetAnswer(h, 500, "RECORD_EXISTS", NoToken)
     ELSE /\ usersRows' = created.rows
          /\ SetAnswer(h, 200, "", secureToken)
  /\ UNCHANGED <<flowVars, csrfVars, tokenVars, rateVars, extractVars,
                 issueVars, raceVars, loginVars, clientVars>>

\* the response has been returned; the next call is handled
SetReturn(h) ==
  /\ setCalls[h].pc = "done"
  /\ setCalls' = [setCalls EXCEPT ![h] = IdleSet]
  /\ UNCHANGED <<usersRows, flowVars, csrfVars, tokenVars, rateVars,
                 extractVars, issueVars, raceVars, loginVars, clientVars>>

\* requests of the browsers that hold the session of a code
SetRaceInputs ==
  {<<CsrfMatching,
     generateSecureToken([code |-> code, name |-> Name(P1),
                          whatsappNumber |-> P1, verified |-> TRUE], StartTime),
     password, code>> :
     code \in Codes, password \in {NewPassword, InitialPassword, WeakPassword}}
    \cup {<<CsrfFailing, NoToken, NewPassword, Code1>>}

(***************************************************************************)
(* POST /api/reset-password step by step: the handler awaits the store at  *)
(* the account lookup, at each probe of the generation loop and at the     *)
(* insert, and other calls run in between.  Each call has its own browser. *)
(***************************************************************************)
ResetHandlers == {1, 2}

IdleReset ==
  [pc |-> "idle", phone |-> <<>>, name |-> "", code |-> Absent, attempts |-> 0,
   codeExists |-> TRUE, status |-> 0, error |-> "", cookie |-> NoToken]

ResetAnswer(h, status, error, cookie) ==
  resetCalls' = [resetCalls EXCEPT ![h] =
    [@ EXCEPT !.pc = "done", !.status = status, !.error = error,
              !.cookie = cookie]]

\* from the CSRF guard to the first generateVerificationCode(), which
\* returns draw
ResetStart(h, request, phone, draw) ==
  LET sanitizedPhone == sanitizeUserInput(phone)
      validatedPhone == validatePhoneNumber(sanitizedPhone)
      existingUser == IF validatedPhone \in Phones
                      THEN users[validatedPhone] ELSE NoRow
  IN
  /\ resetCalls[h].pc = "idle"
  /\ IF ~validateDoubleSubmitCSRF(request)
     THEN ResetAnswer(h, 403, "CSRF_INVALID", NoToken)
     ELSE IF validatedPhone = Absent
     THEN ResetAnswer(h, 400, "INVALID_INPUT", NoToken)
     ELSE IF existingUser = NoRow \/ ~existingUser.verified
     THEN ResetAnswer(h, 404, "ACCOUNT_NOT_FOUND", NoToken)
     ELSE resetCalls' = [resetCalls EXCEPT ![h] =
            [@ EXCEPT !.pc = "probe", !.phone = validatedPhone,
                      !.name = existingUser.name, !.code = draw,
                      !.attempts = 0, !.codeExists = TRUE]]
  /\ UNCHANGED <<flowVars, csrfVars, tokenVars, rateVars, extractVars,
                 issueVars, loginVars, setVars, clientVars>>

\* one turn of while (codeExists && attempts < 10): the probe of the
\* current code, and on a hit the next generateVerificationCode() (draw)
ResetProbe(h, draw) ==
  LET call == resetCalls[h]
      data == RowOf(verification_codes, call.code)
  IN
  /\ call.pc = "probe"
  /\ resetCalls' = [resetCalls EXCEPT ![h] =
       IF data = NoRow
       THEN [@ EXCEPT !.codeExists = FALSE, !.pc = "insert"]
       ELSE [@ EXCEPT !.code = draw, !.attempts = call.attempts + 1,
                      !.pc = IF call.attempts + 1 < MAX_CODE_ATTEMPTS
                             THEN "probe" ELSE "insert"]]
  /\ UNCHANGED <<flowVars, csrfVars, tokenVars, rateVars, extractVars,
                 issueVars, loginVars, setVars, clientVars>>

\* the insert of the record, the token and the response; code is the
\* unique key of verification_codes
ResetInsert(h) ==
  LET call == resetCalls[h]
      secureToken == generateSecureToken(
                       [code |-> call.code, name |-> call.name,
                        whatsappNumber |-> call.phone, verified |-> FALSE],
                       now)
  IN
  /\ call.pc = "insert"
  /\ IF RowOf(verification_codes, call.code) # NoRow
     THEN /\ ResetAnswer(h, 500, "RECORD_EXISTS", NoToken)
          /\ UNCHANGED verification_codes
     ELSE /\ verification_codes' = [verification_codes EXCEPT ![call.code] =
               [code |-> call.code, name |-> call.name,
                whatsapp_number |-> call.phone, verified |-> FALSE,
                expires_at |-> now + CODE_TTL, verified_at |-> 0]]
          /\ ResetAnswer(h, 200, "", secureToken)
  /\ UNCHANGED <<now, lastSweep, users, processedMessages, messageRateLimit,
                 deliveries, verifyWrites, authCookie, last, csrfVars,
                 tokenVars, rateVars, extractVars, issueVars, loginVars, setVars, clientVars>>

\* the response has been returned; the next call is handled
ResetReturn(h) ==
  /\ resetCalls[h].pc = "done"
  /\ resetCalls' = [resetCalls EXCEPT ![h] = IdleReset]
  /\ UNCHANGED <<flowVars, csrfVars, tokenVars, rateVars, extractVars,
                 issueVars, loginVars, setVars, clientVars>>

(***************************************************************************)
(* Specifications                                                          *)
(***************************************************************************)
NoCsrfRequest == [method |-> "GET", csrfHeader |-> Absent, csrfCookie |-> Absent]

FlowIdle ==
  /\ now = StartTime
  /\ lastSweep = StartTime - SWEEP_INTERVAL + 1
  /\ deliveries = [d \in 1..MaxDeliveries |-> IdleDelivery]
  /\ verifyWrites = [c \in Codes |-> 0]
  /\ authCookie = NoToken
  /\ last = NoResponse

CsrfIdle ==
  /\ csrfRequest = NoCsrfRequest
  /\ csrfResult = "none"

TokenIdle ==
  /\ tkData = [code |-> Code1, name |-> Name(P1), whatsappNumber |-> P1,
               verified |-> TRUE]
  /\ tkToken = NoToken
  /\ tkPresented = NoToken
  /\ tkNow = StartTime
  /\ tkOut = NoOut

RateIdle ==
  /\ rlType = "auth"
  /\ rlStore = [k \in RateKeys |-> NoEntry]
  /\ rlNow = 0
  /\ rlSteps = 0
  /\ rlOut = NoRateOut

ExtractIdle ==
  /\ exMessage = <<>>
  /\ exResult = NoExtraction

IssueIdle ==
  /\ issueRequest = NoIssueRequest
  /\ issueResponse = NoIssueResponse

RaceIdle == resetCalls = [h \in ResetHandlers |-> IdleReset]

LoginIdle ==
  /\ nodeEnv = "production"
  /\ loginResponse = NoLoginResponse

ClientIdle == client = IdleClient

SetIdle ==
  /\ usersRows = <<>>
  /\ setCalls = [h \in SetHandlers |-> IdleSet]

StudyIdle ==
  ExtractIdle /\ IssueIdle /\ RaceIdle /\ LoginIdle /\ ClientIdle /\ SetIdle

AuxIdle == RateIdle /\ StudyIdle

NoRateLimit == [stamp |-> [p \in Phones |-> 0], count |-> [p \in Phones |-> 0]]

\* deliveries take the free slots in order
NextDelivery(d) ==
  /\ deliveries[d].pc = "idle"
  /\ \A e \in 1..(d - 1) : deliveries[e].pc # "idle"

\* The routes together.  P1 has an account; P2 has none and signed up nine
\* minutes ago (an unverified record created by the signup route).  The
\* platform delivers authentic messages and accepts the replies; rejected
\* requests, failed sends and the sweep of the dedup and rate maps, which no
\* API route reads, are the subject of SpecWebhook.
Init ==
  /\ AuxIdle
  /\ FlowIdle
  /\ CsrfIdle
  /\ TokenIdle
  /\ messageRateLimit = NoRateLimit
  /\ processedMessages = [id \in MsgIds |-> 0]
  /\ users = [p \in Phones |->
                IF p = P1
                THEN UserRow(p, Name(p), hashPassword(InitialPassword))
                ELSE NoRow]
  /\ verification_codes = [c \in Codes |->
                IF c = Code2
                THEN VerificationRow(Code2, P2, StartTime + 1 - CODE_TTL)
                ELSE NoRow]

Next ==
  \/ \E request \in FlowRequests : \E d \in 1..FlowDeliveries :
       NextDelivery(d) /\ WebhookReceive(d, request)
  \/ \E d \in 1..FlowDeliveries : WebhookLookup(d)
  \/ \E d \in 1..FlowDeliveries : WebhookUpdate(d)
  \/ \E d \in 1..FlowDeliveries : WebhookSend(d, TRUE)
  \/ \E in \in ResetPasswordInputs : ResetPassword(in[1], in[2], in[3])
  \/ \E in \in VerifyAndAuthInputs : VerifyAndAuth(in[1], in[2])
  \/ \E token \in SessionTokens : GetSession(token)
  \/ \E in \in SetPasswordInputs : SetPassword(in[1], in[2], in[3], in[4])
  \/ Tick

Spec == Init /\ [][Next]_vars

\* The webhook on its own: a record for P1 was created nine minutes ago,
\* message m0 was handled five minutes ago, and P2 has just used up its
\* messages of this minute (messages whose ids are not delivered again).
InitWebhook ==
  /\ AuxIdle
  /\ FlowIdle
  /\ CsrfIdle
  /\ TokenIdle
  /\ users = [p \in Phones |->
                UserRow(p, Name(p), hashPassword(InitialPassword))]
  /\ verification_codes = [c \in Codes |->
                IF c = Code1
                THEN VerificationRow(Code1, P1, StartTime + 1 - CODE_TTL)
                ELSE NoRow]
  /\ processedMessages =
        [id \in MsgIds |-> IF id = "m0" THEN StartTime - DEDUP_RETENTION ELSE 0]
  /\ messageRateLimit =
        [NoRateLimit EXCEPT !.stamp[P2] = StartTime,
                            !.count[P2] = MAX_MESSAGES_PER_MINUTE]

NextWebhook ==
  \/ \E d \in 1..MaxDeliveries : \E request \in WebhookRequests :
       NextDelivery(d) /\ WebhookReceive(d, request)
  \/ \E d \in 1..MaxDeliveries : WebhookLookup(d)
  \/ \E d \in 1..MaxDeliveries : WebhookUpdate(d)
  \/ \E d \in 1..MaxDeliveries : \E delivered \in BOOLEAN :
       WebhookSend(d, delivered)
  \/ Sweep
  \/ Tick

SpecWebhook == InitWebhook /\ [][NextWebhook]_vars

InitToken ==
  /\ AuxIdle
  /\ FlowIdle
  /\ CsrfIdle
  /\ messageRateLimit = NoRateLimit
  /\ processedMessages = [id \in MsgIds |-> 0]
  /\ users = [p \in Phones |-> NoRow]
  /\ verification_codes = [c \in Codes |-> NoRow]
  /\ tkData \in TokenDatas
  /\ tkToken = NoToken
  /\ tkPresented = NoToken
  /\ tkNow = StartTime
  /\ tkOut = NoOut

NextToken ==
  \/ TokenMint
  \/ TokenTamper
  \/ TokenTick
  \/ TokenVerify

SpecToken == InitToken /\ [][NextToken]_vars

\* Tokens of servers run under each configured lifetime
NextTokenConfig ==
  \/ \E env \in ConfiguredExpiries : TokenMintUnder(env)
  \/ \E minutes \in {1, 60, 1440} : TokenWait(minutes)
  \/ TokenVerify

SpecTokenConfig == InitToken /\ [][NextTokenConfig]_vars

InitCsrf ==
  /\ AuxIdle
  /\ FlowIdle
  /\ TokenIdle
  /\ messageRateLimit = NoRateLimit
  /\ processedMessages = [id \in MsgIds |-> 0]
  /\ users = [p \in Phones |-> NoRow]
  /\ verification_codes = [c \in Codes |-> NoRow]
  /\ csrfRequest \in [method : CsrfMethods, csrfHeader : CsrfValues,
                      csrfCookie : CsrfValues]
  /\ csrfResult = "none"

NextCsrf == CsrfValidate

SpecCsrf == InitCsrf /\ [][NextCsrf]_vars

\* One browser going from a verification record to a password login: the
\* system of Init, with the requests a browser makes on that way.
JourneySetPasswordInputs ==
  {<<CsrfMatching, authCookie, password, code>> :
     password \in BodyPasswords, code \in Codes}

NextJourney ==
  \/ \E request \in FlowRequests : WebhookReceive(1, request)
  \/ WebhookLookup(1)
  \/ WebhookUpdate(1)
  \/ WebhookSend(1, TRUE)
  \/ ResetPassword(CsrfMatching, P1, Code1)
  \/ \E code \in Codes : VerifyAndAuth(CsrfMatching, code)
  \/ \E in \in JourneySetPasswordInputs :
       SetPassword(in[1], in[2], in[3], in[4])
  \/ \E in \in AuthPasswordInputs : AuthPassword(in[1], in[2], in[3])
  \/ Tick

SpecJourney == Init /\ [][NextJourney]_vars

\* Logins on their own, on a server of either environment: each phone has
\* no account, or an account whose password set-password has stored.
LoginAccounts(phone) ==
  {NoRow} \cup {UserRow(phone, Name(phone), hashPassword(password)) :
                  password \in {InitialPassword, NewPassword}}

InitLogin ==
  /\ nodeEnv \in {"development", "production"}
  /\ loginResponse = NoLoginResponse
  /\ RateIdle /\ ExtractIdle /\ IssueIdle /\ RaceIdle /\ ClientIdle /\ SetIdle
  /\ FlowIdle
  /\ CsrfIdle
  /\ TokenIdle
  /\ messageRateLimit = NoRateLimit
  /\ processedMessages = [id \in MsgIds |-> 0]
  /\ users \in {accounts \in [Phones -> UNION {LoginAccounts(p) : p \in Phones}] :
                  \A p \in Phones : accounts[p] \in LoginAccounts(p)}
  /\ verification_codes = [c \in Codes |-> NoRow]

NextLogin ==
  \/ \E in \in AuthPasswordInputs : AuthPassword(in[1], in[2], in[3])
  \/ Tick

SpecLogin == InitLogin /\ [][NextLogin]_vars

\* The rate limiter on its own, for one category
InitRate ==
  /\ FlowIdle
  /\ CsrfIdle
  /\ TokenIdle
  /\ messageRateLimit = NoRateLimit
  /\ processedMessages = [id \in MsgIds |-> 0]
  /\ users = [p \in Phones |-> NoRow]
  /\ verification_codes = [c \in Codes |-> NoRow]
  /\ StudyIdle
  /\ rlType \in DOMAIN RATE_LIMITS
  /\ rlStore = [k \in RateKeys |-> NoEntry]
  /\ rlNow = 0
  /\ rlSteps = 0
  /\ rlOut = NoRateOut

NextRate ==
  \/ \E request \in RateRequests : RateCheck(request)
  \/ RateCleanup
  \/ RateTick

SpecRate == InitRate /\ [][NextRate]_vars

\* The throttle of the webhook: each message has one id and one sender; six
\* messages of P2 and one of P1 are posted one after the other, in any
\* order and at any time, between runs of the sweep.
ThrottleIds == {"t1", "t2", "t3", "t4", "t5", "t6", "u1"}
ThrottleSender(id) == IF id = "u1" THEN P1 ELSE P2
ThrottleRequests ==
  {GoodRequest(MessageBody(id, ThrottleSender(id), TextHello)) :
     id \in ThrottleIds}

InitThrottle ==
  /\ AuxIdle
  /\ FlowIdle
  /\ CsrfIdle
  /\ TokenIdle
  /\ users = [p \in Phones |->
                UserRow(p, Name(p), hashPassword(InitialPassword))]
  /\ verification_codes = [c \in Codes |-> NoRow]
  /\ processedMessages = [id \in ThrottleIds |-> 0]
  /\ messageRateLimit = NoRateLimit

NextThrottle ==
  \/ \E request \in ThrottleRequests : WebhookReceive(1, request)
  \/ WebhookReturn(1)
  \/ Sweep
  \/ Tick

SpecThrottle == InitThrottle /\ [][NextThrottle]_vars

\* reset-password on its own: the requests of one browser for the verified
\* user, with every value the code generator can hand to the route
ResetCodeInputs ==
  {<<CsrfMatching, phone, candidate>> :
     phone \in Phones, candidate \in GeneratedCodes}
    \cup {<<CsrfFailing, P1, Code1>>}

InitReset ==
  /\ AuxIdle
  /\ FlowIdle
  /\ CsrfIdle
  /\ TokenIdle
  /\ messageRateLimit = NoRateLimit
  /\ processedMessages = [id \in MsgIds |-> 0]
  /\ users = [p \in Phones |->
                IF p = P1
                THEN UserRow(p, Name(p), hashPassword(InitialPassword))
                ELSE NoRow]
  /\ verification_codes = [c \in GeneratedCodes |-> NoRow]

NextReset ==
  \/ \E in \in ResetCodeInputs : ResetPassword(in[1], in[2], in[3])
  \/ Tick

SpecReset == InitReset /\ [][NextReset]_vars

\* reset-password calls of two browsers for the verified user, step by
\* step, with every value the code generator can return at each draw
ResetRaceInputs ==
  {<<CsrfMatching, phone>> : phone \in Phones} \cup {<<CsrfFailing, P1>>}

NextResetRace ==
  \/ \E h \in ResetHandlers : \E in \in ResetRaceInputs :
       \E draw \in GeneratedCodes : ResetStart(h, in[1], in[2], draw)
  \/ \E h \in ResetHandlers : \E draw \in GeneratedCodes : ResetProbe(h, draw)
  \/ \E h \in ResetHandlers : ResetInsert(h)
  \/ \E h \in ResetHandlers : ResetReturn(h)

SpecResetRace == InitReset /\ [][NextResetRace]_vars

\* extractVerificationCode applied to each message text of the bounded set
InitExtract ==
  /\ RateIdle
  /\ IssueIdle
  /\ RaceIdle
  /\ LoginIdle
  /\ ClientIdle
  /\ SetIdle
  /\ FlowIdle
  /\ CsrfIdle
  /\ TokenIdle
  /\ messageRateLimit = NoRateLimit
  /\ processedMessages = [id \in MsgIds |-> 0]
  /\ users = [p \in Phones |-> NoRow]
  /\ verification_codes = [c \in Codes |-> NoRow]
  /\ exMessage \in ExtractMessages
  /\ exResult = NoExtraction

NextExtract == Extract

SpecExtract == InitExtract /\ [][NextExtract]_vars

\* the two issuance handlers, called in any order by one browser
InitIssue ==
  /\ RateIdle
  /\ ExtractIdle
  /\ RaceIdle
  /\ LoginIdle
  /\ ClientIdle
  /\ SetIdle
  /\ FlowIdle
  /\ CsrfIdle
  /\ TokenIdle
  /\ messageRateLimit = NoRateLimit
  /\ processedMessages = [id \in MsgIds |-> 0]
  /\ users = [p \in Phones |-> NoRow]
  /\ verification_codes = [c \in Codes |-> NoRow]
  /\ issueRequest \in [userAgent : BOOLEAN, csrfCookie : CsrfValues, age : {0}]
  /\ issueResponse = NoIssueResponse

NextIssue ==
  \/ \E generated \in GeneratedCsrfTokens : CsrfTokenGet(generated)
  \/ \E generated \in GeneratedCsrfTokens : CsrfTokenGetExisting(generated)
  \/ IssueTick

SpecIssue == InitIssue /\ [][NextIssue]_vars

\* The page on its own, from its first load.
InitClient ==
  /\ AuxIdle
  /\ FlowIdle
  /\ CsrfIdle
  /\ TokenIdle
  /\ messageRateLimit = NoRateLimit
  /\ processedMessages = [id \in MsgIds |-> 0]
  /\ users = [p \in Phones |-> NoRow]
  /\ verification_codes = [c \in Codes |-> NoRow]

NextClient ==
  \/ ClientMount
  \/ \E generated \in GeneratedCsrfTokens : ClientRefresh(generated)
  \/ \E generated \in GeneratedCsrfTokens : MakeRequestBegin(generated)
  \/ \E outcome \in RouteOutcomes : MakeRequestFetch(outcome)
  \/ \E generated \in GeneratedCsrfTokens : \E outcome \in RouteOutcomes :
       MakeRequestSettle(generated, outcome)
  \/ MakeRequestReturn
  \/ ClientTick

SpecClient == InitClient /\ [][NextClient]_vars

\* Set-password calls that run together: both codes belong to verified,
\* unexpired records of P1 (a signup and a password reset), and P1 has no
\* row yet or has one.
InitSetRace ==
  /\ RateIdle /\ ExtractIdle /\ IssueIdle /\ RaceIdle /\ LoginIdle
  /\ ClientIdle
  /\ FlowIdle
  /\ CsrfIdle
  /\ TokenIdle
  /\ messageRateLimit = NoRateLimit
  /\ processedMessages = [id \in MsgIds |-> 0]
  /\ users = [p \in Phones |-> NoRow]
  /\ verification_codes =
       [c \in Codes |-> [VerificationRow(c, P1, StartTime - 1)
                           EXCEPT !.verified = TRUE, !.verified_at = StartTime]]
  /\ usersRows \in {<<>>, <<UserRow(P1, Name(P1), hashPassword(InitialPassword))>>,
                    <<UserRow(P2, Name(P2), hashPassword(InitialPassword))>>}
  /\ setCalls = [h \in SetHandlers |-> IdleSet]

NextSetRace ==
  \/ \E h \in SetHandlers : \E in \in SetRaceInputs :
       SetStart(h, in[1], in[2], in[3], in[4])
  \/ \E h \in SetHandlers : SetCheck(h)
  \/ \E h \in SetHandlers : SetWrite(h)
  \/ \E h \in SetHandlers : SetReturn(h)

SpecSetRace == InitSetRace /\ [][NextSetRace]_vars

(***************************************************************************)
(* Properties                                                              *)
(***************************************************************************)

\* a header or cookie that was sent, possibly with the empty string as value
Present(value) == value # Absent

\* C10 as stated: for every non-GET request validateDoubleSubmitCSRF
\* returns true if and only if the x-csrf-token header and the csrf-token
\* cookie are both present and equal character for character.
C10_TrueIffPresentAndEqual ==
  (csrfResult # "none" /\ csrfRequest.method # "GET")
    => ((csrfResult = "true")
          <=> (/\ Present(csrfRequest.csrfHeader)
               /\ Present(csrfRequest.csrfCookie)
               /\ csrfRequest.csrfHeader = csrfRequest.csrfCookie))

\* C10, amended: for every non-GET request validateDoubleSubmitCSRF returns
\* true if and only if header and cookie are both present, both non-empty,
\* and equal character for character; a missing or empty header, a missing
\* or empty cookie and any mismatch (differing lengths included) yield false.
C10_TrueIffNonEmptyAndEqual ==
  (csrfResult # "none" /\ csrfRequest.method # "GET")
    => ((csrfResult = "true")
          <=> (/\ Present(csrfRequest.csrfHeader)
               /\ Present(csrfRequest.csrfCookie)
               /\ csrfRequest.csrfHeader # <<>>
               /\ csrfRequest.csrfHeader = csrfRequest.csrfCookie))

\* a POST with equal two-character values was validated and accepted
C10_Witness ==
  /\ csrfResult = "true"
  /\ csrfRequest.method = "POST"
  /\ csrfRequest.csrfHeader = CsrfA
  /\ csrfRequest.csrfCookie = CsrfA

\* C8: for all session claims (code, name, phone, verified flag), verifying
\* the token minted from them returns the same claims, the verified flag
\* included, at every time before the token's expiry, and invalid at every
\* time at or after it.
C8_RoundTripUntilExpiry ==
  (tkOut.done /\ tkOut.token = tkToken)
    => IF tkOut.at < tkToken.payload.json.exp
       THEN tkOut.api = tkData
       ELSE tkOut.api = Null

\* C9: a copy of a minted token in which one of the three segments was
\* changed is invalid for verifyAccessToken (behind verifySecureToken) and
\* for verifyAccessTokenMiddleware.
C9_TamperedIsInvalid ==
  (tkOut.done /\ tkOut.token # tkToken)
    => (tkOut.api = Null /\ tkOut.middleware = Null)

\* the four gates of the webhook, as the specification lists them
AllGates(request) ==
  /\ request.contentLength <= maxPayloadSize
  /\ request.signature.present
  /\ request.signature.prefix = "sha256=" /\ request.signature.hexLen = 64
  /\ request.signature.digest =
       Hmac("sha256", WHATSAPP_APP_SECRET, request.rawBody)

\* C5: a webhook POST that fails one of the four gates is answered 401 and
\* changes neither the dedup set, nor a rate counter, nor a verification
\* record, and sends nothing; a delivery gets into the message handling
\* (dedup, rate counting, lookup, update, send) only with a request that
\* passed all four gates, and only such a delivery writes a verification
\* record or sends a reply.
C5_OnlyAuthenticatedRequestsAct ==
  [][/\ \A d \in 1..MaxDeliveries :
          (deliveries[d].pc = "idle" /\ deliveries'[d].pc # "idle")
            => \A request \in WebhookRequests :
                 (~AllGates(request) /\ WebhookReceive(d, request))
                   => /\ deliveries'[d].pc = "done"
                      /\ deliveries'[d].status = 401
                      /\ ~deliveries'[d].reached /\ ~deliveries'[d].sent
                      /\ UNCHANGED <<processedMessages, messageRateLimit,
                                     verification_codes>>
     /\ \A d \in 1..MaxDeliveries :
          (deliveries'[d].reached /\ ~deliveries[d].reached)
            => \E request \in WebhookRequests :
                 /\ request.rawBody.id = deliveries'[d].id
                 /\ AllGates(request)
                 /\ WebhookReceive(d, request)
     /\ \A d \in 1..MaxDeliveries :
          (deliveries'[d].pc \in {"lookup", "update", "send"}
             \/ deliveries'[d].sent)
            => deliveries'[d].reached
     /\ (verification_codes' # verification_codes)
          => \E d \in 1..MaxDeliveries :
               deliveries[d].reached /\ deliveries[d].pc = "update"
    ]_vars

\* a request signed with another key was answered 401 after the delay, and
\* nothing was recorded for it
C5_Witness ==
  /\ deliveries[1].pc = "done"
  /\ deliveries[1].status = 401
  /\ deliveries[1].note = "invalid_signature"
  /\ deliveries[1].delayed
  /\ processedMessages["m1"] = 0
  /\ messageRateLimit.stamp[P1] = 0

\* two deliveries of one message that was not delivered before: slots
\* holding the same message id (a request rejected with 401 leaves no id)
SameMessage(d, e) ==
  /\ d # e
  /\ deliveries[d].id \notin {"", "m0"}
  /\ deliveries[d].id = deliveries[e].id

\* C6 as stated: when the same message id is delivered twice, exactly one
\* delivery reaches the verification logic and both deliveries are
\* acknowledged with a success response.
C6_ExactlyOneProcessedBothAcked ==
  \A d, e \in 1..MaxDeliveries :
    (SameMessage(d, e)
       /\ deliveries[d].pc = "done" /\ deliveries[e].pc = "done")
      => /\ deliveries[d].reached # deliveries[e].reached
         /\ deliveries[d].status = 200
         /\ deliveries[e].status = 200

\* C6, amended: of two deliveries of the same message id within the
\* retention window at most one gets past the dedup check; a delivery that
\* does not is acknowledged 200 as duplicate or as rate limited, and the
\* one that does is acknowledged 200 unless its reply send failed, in which
\* case it is answered 500.
C6_AtMostOneProcessed ==
  \A d, e \in 1..MaxDeliveries :
    SameMessage(d, e)
      => /\ ~(deliveries[d].reached /\ deliveries[e].reached)
         /\ (deliveries[d].pc = "done" /\ ~deliveries[d].reached)
              => /\ deliveries[d].status = 200
                 /\ deliveries[d].note \in {"Duplicate ignored", "Rate limited"}
                 /\ ~deliveries[d].sent
         /\ (deliveries[d].pc = "done" /\ deliveries[d].reached)
              => \/ deliveries[d].status = 200
                 \/ /\ deliveries[d].status = 500
                    /\ deliveries[d].sent
         /\ (deliveries[d].note = "Duplicate ignored")
              => \E f \in 1..MaxDeliveries :
                   SameMessage(d, f) /\ deliveries[f].reached

\* m1 was delivered twice while the first delivery was still in flight: the
\* first was processed, the second acknowledged as duplicate
C6_Witness ==
  /\ SameMessage(1, 2)
  /\ deliveries[1].reached /\ deliveries[1].reply = "success"
  /\ deliveries[1].pc = "done" /\ deliveries[1].status = 200
  /\ deliveries[2].pc = "done" /\ deliveries[2].status = 200
  /\ deliveries[2].note = "Duplicate ignored"

\* C7: for each verification record the write that sets verified = true is
\* performed at most once, under any interleaving of webhook deliveries.
C7_VerifiedWrittenAtMostOnce ==
  \A c \in Codes : verifyWrites[c] <= 1

\* a delivery that got past the webhook's gates, sent from phone p, with the
\* code of a verification record bound to p
OwnMessage(p) ==
  \E d \in 1..MaxDeliveries :
    /\ deliveries[d].reached
    /\ deliveries[d].from = p
    /\ deliveries[d].code \in Codes
    /\ verification_codes[deliveries[d].code] # NoRow
    /\ verification_codes[deliveries[d].code].whatsapp_number = p

\* the accounts before any request of the model
InitialUser(p) ==
  IF p = P1 THEN UserRow(P1, Name(P1), hashPassword(InitialPassword)) ELSE NoRow

\* C1: the account of phone p (its password hash) is created or changed
\* only if a signature-valid webhook message with the code of a record
\* bound to p was sent from p itself.
C1_PasswordOnlyAfterOwnMessage ==
  \A p \in Phones : (users[p] # InitialUser(p)) => OwnMessage(p)

\* C3: the auth_token cookie holds a token only for a verification record
\* that is verified (records never go back to unverified, and the model has
\* no password login).
C3_TokenOnlyForVerifiedRecord ==
  (authCookie # NoToken)
    => /\ RowOf(verification_codes, authCookie.payload.json.userId) # NoRow
       /\ RowOf(verification_codes, authCookie.payload.json.userId).verified

\* the tokens the server can have minted, and of those the unexpired ones
MintedTokens ==
  {generateSecureToken([code |-> c, name |-> Name(p), whatsappNumber |-> p,
                        verified |-> v], t) :
     c \in Codes, p \in Phones, v \in BOOLEAN, t \in StartTime..MaxTime}

GenuineToken(token) ==
  token \in MintedTokens /\ now < token.payload.json.exp

CsrfPassed(request) ==
  /\ request.csrfHeader \notin {Absent, <<>>}
  /\ request.csrfHeader = request.csrfCookie

\* the store holds an unexpired, verified record for the code
VerifiedUnexpired(code) ==
  /\ code \in Codes
  /\ verification_codes[code] # NoRow
  /\ verification_codes[code].verified
  /\ verification_codes[code].expires_at > now

\* C2 as stated, second half: in every reachable state, a set-password
\* request that passes the CSRF check with a valid token whose code differs
\* from the (sanitised) body code is answered 403 and writes nothing.
C2_MismatchAnswered403 ==
  \A in \in SetPasswordInputs :
    (/\ CsrfPassed(in[1])
     /\ GenuineToken(in[2])
     /\ in[2].payload.json.userId # sanitizeUserInput(in[4]))
      => \A result \in {setPasswordResult(in[1], in[2], in[3], in[4])} :
           result.status = 403 /\ result.users = users

\* C2, amended: in every reachable state, set-password writes to the users
\* table only if the CSRF check passed, the auth_token is a valid token, the
\* token's code equals the sanitised body code and the store holds an
\* unexpired, verified record for that code; when the token's code differs
\* nothing is written, and the answer is 403, or 400 when the password
\* fails the validation that runs before the comparison.
C2_WritesOnlyWhenAuthorized ==
  \A in \in SetPasswordInputs :
  \A result \in {setPasswordResult(in[1], in[2], in[3], in[4])} :
    LET bodyCode == sanitizeUserInput(in[4])
        differs == in[2].payload.json.userId # bodyCode
    IN /\ (result.users # users \/ result.status = 200)
            => /\ CsrfPassed(in[1])
               /\ GenuineToken(in[2])
               /\ ~differs
               /\ VerifiedUnexpired(bodyCode)
       /\ (CsrfPassed(in[1]) /\ GenuineToken(in[2]) /\ differs)
            => /\ result.users = users
               /\ result.status =
                    IF validatePassword(sanitizeUserInput(in[3]))
                    THEN 403 ELSE 400

\* set-password has written the account of P2 (its signup)
C2_Witness ==
  /\ last.op = "set-password"
  /\ last.status = 200
  /\ users[P2] # NoRow
  /\ users[P2].password_hash = hashPassword(NewPassword)

\* C4: in every reachable state, verify-and-auth sets the auth_token
\* cookie only if the store holds an unexpired, verified record for the
\* submitted (sanitised) code, and the token is for that code; for an
\* unknown, expired or not yet verified code it answers with an error and
\* sets no cookie.
C4_CookieOnlyForVerifiedUnexpired ==
  \A in \in VerifyAndAuthInputs :
  \A result \in {verifyAndAuthResult(in[1], in[2])} :
    LET code == sanitizeUserInput(in[2])
    IN /\ (result.cookie # NoToken)
            => /\ CsrfPassed(in[1])
               /\ VerifiedUnexpired(code)
               /\ result.cookie.payload.json.userId = code
       /\ ~VerifiedUnexpired(code)
            => (result.status >= 400 /\ result.cookie = NoToken)

\* verify-and-auth has set a token for the verified code of P2
C4_Witness ==
  /\ last.op = "verify-and-auth"
  /\ last.status = 200
  /\ last.setCookie
  /\ authCookie.payload.json.userId = Code2
  /\ verification_codes[Code2].verified

\* C11: a call of checkRateLimit for a key that has had maxRequests calls
\* allowed in its window, made before the window has rolled over (not later
\* than resetTime), was denied with remaining 0 and a retryAfter above 0.
C11_DeniedWithPositiveRetryAfter ==
  (/\ rlOut.called
   /\ rlOut.before # NoEntry
   /\ rlOut.before.count >= RATE_LIMITS[rlType].maxRequests
   /\ rlOut.at <= rlOut.before.resetTime)
    => (~rlOut.allowed /\ rlOut.remaining = 0 /\ rlOut.retryAfter > 0)

\* C12: in every reachable state, a call of checkRateLimit for a key whose
\* window has elapsed is allowed whatever the stored count, and leaves the
\* entry count = 1 with resetTime = now + windowMs.
C12_ElapsedWindowStartsAfresh ==
  \A request \in RateRequests :
  \A result \in {checkRateLimit(rlStore, request, rlType, rlNow)} :
    LET key == keyGenerator(rlType, request)
    IN (rlStore[key] # NoEntry /\ rlNow > rlStore[key].resetTime)
         => /\ result.allowed
            /\ result.remaining = RATE_LIMITS[rlType].maxRequests - 1
            /\ result.store[key].count = 1
            /\ result.store[key].resetTime =
                 rlNow + RATE_LIMITS[rlType].windowMs

\* a call after the window of a used-up key had elapsed was allowed
C12_Witness ==
  /\ rlOut.called
  /\ rlOut.before # NoEntry
  /\ rlOut.before.count = RATE_LIMITS[rlType].maxRequests
  /\ rlOut.at > rlOut.before.resetTime
  /\ rlOut.allowed
  /\ rlStore[rlOut.key] # NoEntry
  /\ rlStore[rlOut.key].count = 1

\* C13: in every reachable state, a call of checkRateLimit that is denied
\* leaves the entry of its key as it was and returns as retryAfter the
\* least whole number of seconds that covers the time left to resetTime;
\* no stored count is above maxRequests.
C13_DeniedCallChangesNothing ==
  /\ \A request \in RateRequests :
     \A result \in {checkRateLimit(rlStore, request, rlType, rlNow)} :
       LET key == keyGenerator(rlType, request)
           left == rlStore[key].resetTime - rlNow
       IN ~result.allowed
            => /\ rlStore[key] # NoEntry
               /\ result.store[key] = rlStore[key]
               /\ result.retryAfter * 1000 >= left
               /\ (result.retryAfter - 1) * 1000 < left
  /\ \A key \in RateKeys :
       rlStore[key] # NoEntry
         => rlStore[key].count <= RATE_LIMITS[rlType].maxRequests

\* a call was denied a millisecond before resetTime, twice in a row
C13_Witness ==
  /\ rlOut.called
  /\ ~rlOut.allowed
  /\ rlOut.before.resetTime - rlOut.at = 1
  /\ rlOut.retryAfter = 1
  /\ rlStore[rlOut.key] = rlOut.before
  /\ rlOut.before.lastRequest < rlOut.at

\* the passwords of the login requests, all accepted by the validator
LoginPasswords == {NewPassword, InitialPassword}

\* the record of the code was verified by the webhook (before it expired)
Verified(code) ==
  verification_codes[code] # NoRow /\ verification_codes[code].verified

\* the exchange, the password change and the logins of C14 for the records
\* chosen by InTime and the logins chosen by Admitted
EndToEnd(InTime(_), Admitted) ==
  /\ \A code \in Codes :
       (Verified(code) /\ InTime(code))
         => \A exchange \in {verifyAndAuthResult(CsrfMatching, code)} :
              /\ exchange.status = 200
              /\ exchange.cookie # NoToken
              /\ exchange.cookie.payload.json.userId = code
              /\ \A password \in BodyPasswords :
                   validatePassword(password)
                     => \A set \in {setPasswordResult(CsrfMatching,
                                      exchange.cookie, password, code)} :
                          /\ set.status = 200
                          /\ set.users[verification_codes[code].whatsapp_number]
                               .password_hash = hashPassword(password)
  /\ \A phone \in Phones : \A password \in LoginPasswords :
       (/\ users[phone] # NoRow
        /\ users[phone].password_hash = hashPassword(password)
        /\ Admitted)
         => /\ \A login \in {authPasswordResult(CsrfMatching, phone, password)} :
                 login.status = 200 /\ login.cookie # NoToken
            /\ \A other \in LoginPasswords \ {password} :
               \A login \in {authPasswordResult(CsrfMatching, phone, other)} :
                 /\ login.status = 401
                 /\ login.error = "AUTH_INVALID"
                 /\ login.cookie = NoToken

Always(code) == TRUE
Unexpired(code) == verification_codes[code].expires_at > now

C15_ExpiredAnsweredAsUnknown ==
  \A expired \in Codes : \A unknown \in Codes \cup {UnknownCode} :
    (/\ verification_codes[expired] # NoRow
     /\ verification_codes[expired].expires_at <= now
     /\ RowOf(verification_codes, unknown) = NoRow)
      => /\ verifyAndAuthResult(CsrfMatching, expired)
              = verifyAndAuthResult(CsrfMatching, unknown)
         /\ verifyAndAuthResult(CsrfMatching, expired).error
              = "RECORD_NOT_FOUND"

\* the record of P2 has expired, the code of P1 has no record, and
\* verify-and-auth has answered not found
C15_Witness ==
  /\ verification_codes[Code2] # NoRow
  /\ verification_codes[Code2].expires_at <= now
  /\ verification_codes[Code1] = NoRow
  /\ last.op = "verify-and-auth"
  /\ last.status = 500
  /\ last.error = "RECORD_NOT_FOUND"


\* C16 (as stated): extractVerificationCode returns, upper-cased, the first
\* run of the message that is delimited by whitespace, is 6 characters long,
\* is alphanumeric and has a letter and a digit, and no match when the
\* message has no such run.
RECURSIVE SpaceRuns(_)
SpaceRuns(text) ==
  IF \A i \in DOMAIN text : text[i] # " " THEN <<text>>
  ELSE LET cut == CHOOSE i \in DOMAIN text :
                    text[i] = " " /\ \A k \in 1..(i - 1) : text[k] # " "
       IN <<SubSeq(text, 1, cut - 1)>> \o
          SpaceRuns(SubSeq(text, cut + 1, Len(text)))

CodeRun(run) ==
  /\ Len(run) = 6
  /\ \A i \in DOMAIN run : run[i] \in UpperChars \cup LowerChars \cup DigitChars
  /\ \E i \in DOMAIN run : run[i] \in UpperChars \cup LowerChars
  /\ \E i \in DOMAIN run : run[i] \in DigitChars

FirstSpaceDelimitedCode(text) ==
  LET runs == SpaceRuns(text)
      good == {i \in DOMAIN runs : CodeRun(runs[i])}
  IN IF good = {} THEN Absent
     ELSE toUpperCase(runs[CHOOSE i \in good : \A k \in good : i <= k])

C16_FirstSpaceDelimitedCode ==
  exResult.done => exResult.code = FirstSpaceDelimitedCode(exMessage)

\* C16 (amended): extractVerificationCode returns, upper-cased, the first
\* run of 6 alphanumeric characters with a letter and a digit that is
\* delimited by word boundaries (on each side the end of the text or a
\* character that is no letter, no digit and not "_"), and no match when
\* the message has no such run.
WordCharacters == UpperChars \cup LowerChars \cup DigitChars \cup {"_"}

WordBoundedCodeAt(text, i) ==
  /\ i + 5 <= Len(text)
  /\ CodeRun(SubSeq(text, i, i + 5))
  /\ (i = 1 \/ text[i - 1] \notin WordCharacters)
  /\ (i + 5 = Len(text) \/ text[i + 6] \notin WordCharacters)

C16_FirstWordBoundedCode ==
  exResult.done =>
    \/ /\ exResult.code = Absent
       /\ \A i \in DOMAIN exMessage : ~WordBoundedCodeAt(exMessage, i)
    \/ \E i \in DOMAIN exMessage :
         /\ WordBoundedCodeAt(exMessage, i)
         /\ exResult.code = toUpperCase(SubSeq(exMessage, i, i + 5))
         /\ \A k \in 1..(i - 1) : ~WordBoundedCodeAt(exMessage, k)

\* a code is found between "-" and the end of a text without whitespace
C16_Witness ==
  /\ exResult.done
  /\ exResult.code = Code1
  /\ FirstSpaceDelimitedCode(exMessage) = Absent
  /\ \E i \in DOMAIN exMessage : exMessage[i] = "-"

\* C17 (as stated): every code that reset-password stores is exactly 6
\* characters from A-Z0-9 with at least one letter and at least one digit.
C17_StoredCodeHasLetterAndDigit ==
  \A code \in DOMAIN verification_codes :
    verification_codes[code] # NoRow =>
      /\ Len(code) = 6
      /\ \A i \in DOMAIN code : code[i] \in UpperChars \cup DigitChars
      /\ \E i \in DOMAIN code : code[i] \in UpperChars
      /\ \E i \in DOMAIN code : code[i] \in DigitChars

\* C18 (as stated): after a successful set-password the subject of the new
\* session token is a random session identifier longer than 10 characters
\* and not the 6-character verification code.
C18_SubjectIsSessionIdentifier ==
  \A in \in SetPasswordInputs :
    \A result \in {setPasswordResult(in[1], in[2], in[3], in[4])} :
      result.status = 200 =>
        /\ Len(result.cookie.payload.json.userId) > CODE_LENGTH_LIMIT
        /\ result.cookie.payload.json.userId \notin DOMAIN verification_codes

\* C19 (as stated): an issuance call made by a browser that already holds
\* a csrf-token cookie is answered with the value of that cookie, generates
\* no token and sets no cookie.
C19_HeldCookieIsReturned ==
  (issueResponse.status = 200 /\ truthy(issueResponse.held)) =>
    /\ issueResponse.token = issueResponse.held
    /\ ~issueResponse.minted
    /\ issueResponse.setCookie = Absent

\* the handler that reads the cookie answers with the held value, generates
\* nothing and sets nothing
ExistingHandlerReturnsHeldCookie ==
  (issueResponse.endpoint = "existing" /\ issueResponse.status = 200
     /\ truthy(issueResponse.held)) =>
    /\ issueResponse.token = issueResponse.held
    /\ ~issueResponse.minted
    /\ issueResponse.setCookie = Absent

\* C20 (as stated): for each sender, within the window opened by the
\* sender's first counted message, at most 5 distinct messages get past the
\* throttle to the verification logic, whatever the interleaving with the
\* sweep.  processedMessages records each message that got past the
\* throttle with the time it did.
ReachedInWindow(p) ==
  {id \in DOMAIN processedMessages :
     /\ ThrottleSender(id) = p
     /\ processedMessages[id] # 0
     /\ processedMessages[id] >= messageRateLimit.stamp[p]
     /\ processedMessages[id] - messageRateLimit.stamp[p] < RATE_LIMIT_WINDOW}

C20_AtMostFivePerWindow ==
  \A p \in Phones :
    messageRateLimit.stamp[p] > 0 =>
      Cardinality(ReachedInWindow(p)) <= MAX_MESSAGES_PER_MINUTE

\* C21 (as stated): once set-password has succeeded for a code, a further
\* set-password request with that code and a valid token for it does not
\* change the password hash of the account.  After the success the browser
\* holds the token the route has just set, whose subject is the code.
C21_PasswordSetIsTerminal ==
  (last.op = "set-password" /\ last.status = 200) =>
    \A password \in BodyPasswords \cup {InitialPassword} :
      \A result \in {setPasswordResult(CsrfMatching, authCookie, password,
                                        authCookie.payload.json.userId)} :
        result.users = users

\* the text of the request carries the code of a record that is verified
\* and unexpired in the current state
CarriesVerifiedCode(request) ==
  \E code \in {extractVerificationCode(request.rawBody.text)} :
    /\ code # Absent
    /\ \E row \in {RowOf(verification_codes, code)} :
         row # NoRow /\ row.verified /\ row.expires_at > now

\* the sender has used up the messages of its current window
OverMessageLimit(from) ==
  /\ messageRateLimit.stamp[from] > 0
  /\ now - messageRateLimit.stamp[from] < RATE_LIMIT_WINDOW
  /\ messageRateLimit.count[from] >= MAX_MESSAGES_PER_MINUTE

\* the steps of a delivery that carries the code of a verified, unexpired
\* record: it is passed to the lookup (when Admitted), the lookup chooses
\* the reply "already" and writes nothing, a record stays verified, the
\* reply is sent once, and the response is as Acknowledged says
AlreadyVerifiedIsNoOp(Admitted(_), Acknowledged(_, _)) ==
  /\ \A d \in 1..MaxDeliveries :
       (deliveries[d].pc = "idle" /\ deliveries'[d].pc # "idle")
         => \A request \in WebhookRequests :
              (/\ request.rawBody.kind = "message"
               /\ request.rawBody.id = deliveries'[d].id
               /\ AllGates(request)
               /\ ~hasProcessed(request.rawBody.id)
               /\ Admitted(request.rawBody.from)
               /\ CarriesVerifiedCode(request)
               /\ WebhookReceive(d, request))
                => /\ deliveries'[d].pc = "lookup"
                   /\ deliveries'[d].code =
                        extractVerificationCode(request.rawBody.text)
                   /\ UNCHANGED <<verification_codes, users>>
  /\ \A d \in 1..MaxDeliveries :
       (deliveries[d].pc = "lookup" /\ deliveries'[d].pc # "lookup")
         => \A row \in {RowOf(verification_codes, deliveries[d].code)} :
              (row # NoRow /\ row.verified
                 /\ row.expires_at > deliveries[d].filterTime)
                => /\ deliveries'[d].pc = "send"
                   /\ deliveries'[d].reply = "already"
                   /\ ~deliveries'[d].sent
                   /\ UNCHANGED <<verification_codes, users>>
  /\ \A code \in Codes :
       (verification_codes[code] # NoRow /\ verification_codes[code].verified)
         => /\ verification_codes'[code] # NoRow
            /\ verification_codes'[code].verified
            /\ verification_codes'[code].expires_at =
                 verification_codes[code].expires_at
  /\ \A d \in 1..MaxDeliveries :
       (deliveries[d].pc = "send" /\ deliveries[d].reply = "already"
          /\ deliveries'[d] # deliveries[d])
         => /\ deliveries'[d].pc = "done"
            /\ deliveries'[d].sent
            /\ deliveries'[d].reply = "already"
            /\ Acknowledged(d, deliveries'[d].status)
            /\ UNCHANGED <<verification_codes, users>>
  /\ \A d \in 1..MaxDeliveries :
       deliveries[d].pc = "done" => deliveries'[d] = deliveries[d]

AnySender(from) == TRUE
SenderWithinLimit(from) == ~OverMessageLimit(from)
AlwaysSuccess(d, status) == status = 200
SuccessWhenSent(d, status) ==
  \A delivered \in BOOLEAN :
    WebhookSend(d, delivered) => status = IF delivered THEN 200 ELSE 500

\* C22 (as stated): a signature-valid, non-duplicate webhook message that
\* carries the code of an unexpired, already verified record performs no
\* store write, sends exactly one informational reply to the sender and is
\* acknowledged with a success response.
C22_AlreadyVerifiedAcknowledged ==
  [][AlreadyVerifiedIsNoOp(AnySender, AlwaysSuccess)]_vars

\* C22 (amended): the same for a message of a sender that has not used up
\* its messages of the minute; the response is a success when the send of
\* the reply succeeds and the generic 500 when it fails.
C22_AlreadyVerifiedWithinLimit ==
  [][AlreadyVerifiedIsNoOp(SenderWithinLimit, SuccessWhenSent)]_vars

\* a delivery found the record verified, sent the reply and answered 200
C22_Witness ==
  \E d \in 1..MaxDeliveries :
    /\ deliveries[d].pc = "done"
    /\ deliveries[d].reply = "already"
    /\ deliveries[d].sent
    /\ deliveries[d].status = 200
    /\ verifyWrites[deliveries[d].code] = 1

\* C23 (as stated): every webhook POST rejected by an authentication gate
\* (answered 401) had the delay step executed before its response, and no
\* other error response is delayed.
C23_RejectionsAreDelayed ==
  \A d \in 1..MaxDeliveries :
    /\ deliveries[d].status = 401 => deliveries[d].delayed
    /\ (deliveries[d].delayed /\ deliveries[d].status >= 400)
         => deliveries[d].status = 401

\* C24 (as stated): a reset-password call whose generation loop used up its
\* 10 retries with every probed candidate taken (codeExists is still true
\* after the loop) inserts no record and issues no token; a call that
\* inserted a record had a probe find that very code absent.
C24_ExhaustedLoopGivesUp ==
  \A h \in ResetHandlers :
    (resetCalls[h].pc = "done" /\ resetCalls[h].codeExists)
      => /\ resetCalls[h].status # 200
         /\ resetCalls[h].cookie = NoToken

\* C25 (as stated): a reset-password call whose insert hits a duplicate key
\* after its probe found the code absent treats this as a collision and
\* retries with a new code; the request is not failed for it.
C25_LateDuplicateIsRetried ==
  \A h \in ResetHandlers :
    (resetCalls[h].pc = "done" /\ ~resetCalls[h].codeExists)
      => resetCalls[h].status = 200

\* C26 (as stated): on auth-password, the endpoint that applies both
\* checks, a request rejected for its CSRF pair leaves the rate-limit entry
\* of the caller as it was.
C26_CsrfRejectionConsumesNoQuota ==
  \A in \in AuthPasswordInputs :
    \A result \in {authPasswordResult(in[1], in[2], in[3])} :
      (result.status = 403 /\ result.error = "CSRF_INVALID")
        => result.store[keyGenerator("auth", BrowserClient)] =
             rlStore[keyGenerator("auth", BrowserClient)]

\* C27 (as stated): the token set by reset-password expires 24 hours after
\* it was issued, the token set by verify-and-auth, set-password or
\* auth-password one hour after it was issued, and each token is valid for
\* as long as the cookie that carries it (Max-Age of the Set-Cookie header).
C27_TokenLivesAsLongAsItsCookie ==
  (last.status = 200 /\ last.setCookie) =>
    /\ last.op = "reset-password" =>
         /\ authCookie.payload.json.exp =
              authCookie.payload.json.iat + RESET_COOKIE_MAX_AGE
         /\ verifySecureToken(authCookie, authCookie.payload.json.iat
                                           + RESET_COOKIE_MAX_AGE - 1) # Null
    /\ last.op \in {"verify-and-auth", "set-password", "auth-password"} =>
         /\ authCookie.payload.json.exp =
              authCookie.payload.json.iat + SESSION_COOKIE_MAX_AGE
         /\ verifySecureToken(authCookie, authCookie.payload.json.iat
                                           + SESSION_COOKIE_MAX_AGE - 1) # Null

\* the instants of a later call: now, or after the clock has moved
LaterTimes == {rlNow} \cup {rlNow + jump : jump \in RateJumps}

\* C28: a run of cleanupExpiredEntries between two checkRateLimit calls
\* changes neither what a later call returns (allowed, remaining, resetTime,
\* retryAfter) nor the store that call leaves, so that all later calls
\* answer as without the sweep; and the sweep deletes no entry whose window
\* has not elapsed (an entry with now <= resetTime).
C28_SweepIsTransparent ==
  \A swept \in {cleanupExpiredEntries(rlStore, rlNow)} :
    /\ \A request \in RateRequests : \A t \in LaterTimes :
         checkRateLimit(swept, request, rlType, t) =
           checkRateLimit(rlStore, request, rlType, t)
    /\ \A key \in DOMAIN rlStore :
         (rlStore[key] # NoEntry /\ rlNow <= rlStore[key].resetTime)
           => swept[key] = rlStore[key]

\* the sweep has something to delete while another key is at its limit at
\* the very instant of its resetTime
C28_Witness ==
  /\ cleanupExpiredEntries(rlStore, rlNow) # rlStore
  /\ \E key \in DOMAIN rlStore :
       /\ rlStore[key] # NoEntry
       /\ rlStore[key].resetTime = rlNow
       /\ rlStore[key].count >= RATE_LIMITS[rlType].maxRequests

\* a step at or after the expiry of the record of code leaves its verified
\* flag alone
FlagKept(code) ==
  verification_codes'[code].verified = verification_codes[code].verified

\* ... sets no token whose subject is the code
NoTokenMinted(code) ==
  authCookie' # authCookie => authCookie'.payload.json.userId # code

\* ... and sets no password through the code (set-password answers with a
\* token for the code it was called with)
NoPasswordSet(code) ==
  users' # users =>
    ~(last'.op = "set-password" /\ authCookie'.payload.json.userId = code)

\* C29 (as stated): at no time at or after the expires_at of a verification
\* record is its verified flag changed, a token minted from it or a password
\* set through it, whatever the interleaving of the handlers' store
\* accesses with the clock.
C29_ExpiredRecordIsInert ==
  [][\A code \in Codes :
       (verification_codes[code] # NoRow
          /\ now >= verification_codes[code].expires_at)
         => FlagKept(code) /\ NoTokenMinted(code) /\ NoPasswordSet(code)
    ]_vars

(***************************************************************************)
(* Failed logins                                                           *)
(***************************************************************************)
HasNoAccount(phone) == users[phone] = NoRow

HasAccountWithOtherPassword(phone, password) ==
  /\ users[phone] # NoRow
  /\ users[phone].verified
  /\ users[phone].password_hash # hashPassword(password)

AuthInvalid(response) ==
  /\ response.status = 401
  /\ response.body.code = "AUTH_INVALID"

\* a login to no account and a login with a wrong password, made in the
\* same state, get the same status and body: 401 AUTH_INVALID unless the
\* client is over its limit
FailedLoginsLookAlike ==
  \A unknown \in Phones, known \in Phones, password \in LoginPasswords :
    HasNoAccount(unknown) /\ HasAccountWithOtherPassword(known, password)
    => \A toUnknown \in
            {authPasswordResult(CsrfMatching, unknown, password).response} :
       \A toKnown \in
            {authPasswordResult(CsrfMatching, known, password).response} :
         /\ toUnknown = toKnown
         /\ toUnknown.status # 429 => AuthInvalid(toUnknown)

\* a login that does not succeed leaves the tables as they are
FailedLoginKeepsAccounts ==
  (/\ last'.op = "auth-password"
   /\ \E in \in AuthPasswordInputs : AuthPassword(in[1], in[2], in[3])
   /\ loginResponse'.status # 200)
  => UNCHANGED <<users, verification_codes>>

\* C30 (as stated): auth-password answers a well-formed phone that has no
\* account exactly as it answers an existing account given a wrong password,
\* in status and in body (401 AUTH_INVALID), and a failed login changes no
\* stored account state.
C30_FailedLoginsAreAlike ==
  /\ []FailedLoginsLookAlike
  /\ [][FailedLoginKeepsAccounts]_vars

\* C30 (amended): the same, on a server whose NODE_ENV is not development.
C30_FailedLoginsAreAlikeOutsideDevelopment ==
  /\ [](nodeEnv # "development" => FailedLoginsLookAlike)
  /\ [][FailedLoginKeepsAccounts]_vars

\* a production server has just answered 401 to a login, while one phone
\* has no account and the other has one with another password
C30_Witness ==
  /\ nodeEnv = "production"
  /\ last.op = "auth-password"
  /\ AuthInvalid(loginResponse)
  /\ \E unknown \in Phones, known \in Phones, password \in LoginPasswords :
       HasNoAccount(unknown) /\ HasAccountWithOtherPassword(known, password)


(***************************************************************************)
(* A reply that could not be sent                                          *)
(***************************************************************************)
\* the delivery has set the flag of its record and is about to send, or
\* has sent, the reply that says so
Flipped(d) ==
  /\ deliveries[d].pc \in {"send", "done"}
  /\ deliveries[d].reply = "success"

FailedAfterFlip(d) ==
  /\ Flipped(d)
  /\ deliveries[d].pc = "done"
  /\ deliveries[d].status >= 500

\* C31: if the reply send fails after a record has been flipped to verified,
\* the record stays verified, the webhook request ends with an error
\* response, and no later delivery of the same message id writes to that
\* record.
C31_FailedSendKeepsTheFlip ==
  [][\A d \in 1..MaxDeliveries :
       /\ (Flipped(d) /\ deliveries[d].pc = "send" /\ WebhookSend(d, FALSE))
          => /\ deliveries'[d].pc = "done"
             /\ deliveries'[d].status >= 500
             /\ verification_codes'[deliveries[d].code].verified
       /\ FailedAfterFlip(d)
          => /\ verification_codes[deliveries[d].code].verified
             /\ verification_codes'[deliveries[d].code].verified
             /\ \A e \in 1..MaxDeliveries \ {d} :
                  (deliveries'[e] # deliveries[e]
                   /\ deliveries'[e].id = deliveries[d].id)
                  => verification_codes' = verification_codes
    ]_vars

\* the send of a delivery failed after the flip, and the same message id
\* has been delivered again and answered
C31_Witness ==
  \E d \in 1..MaxDeliveries : \E e \in 1..MaxDeliveries \ {d} :
    /\ FailedAfterFlip(d)
    /\ deliveries[e].pc = "done"
    /\ deliveries[e].id = deliveries[d].id
    /\ verification_codes[deliveries[d].code].verified


(***************************************************************************)
(* Calls of checkRateLimit on one key                                      *)
(***************************************************************************)
\* the window of the entry is running at time t
Running(entry, t) == entry # NoEntry /\ t <= entry.resetTime

\* the step is a call of checkRateLimit whose record is new
CallRecorded == rlOut' # rlOut /\ rlOut'.called

\* an allowed call adds exactly one to the count of a running window and
\* opens a new window with the count one; a denied call leaves the entry
EveryAllowedCallCounts ==
  CallRecorded =>
    \A before \in {rlStore[rlOut'.key]} : \A after \in {rlStore'[rlOut'.key]} :
      /\ after # NoEntry
      /\ rlOut'.allowed
         => IF Running(before, rlNow)
            THEN /\ after.count = before.count + 1
                 /\ after.resetTime = before.resetTime
            ELSE /\ after.count = 1
                 /\ after.resetTime = rlNow + RATE_LIMITS[rlType].windowMs
      /\ ~rlOut'.allowed => Running(before, rlNow) /\ after = before

\* nothing but a call on the key touches the entry of a running window
OnlyCallsCount ==
  \A key \in RateKeys :
    (Running(rlStore[key], rlNow) /\ rlStore'[key] # rlStore[key])
    => CallRecorded /\ rlOut'.key = key /\ rlOut'.allowed

CountWithinLimit ==
  \A key \in RateKeys :
    rlStore[key] # NoEntry
    => /\ rlStore[key].count >= 1
       /\ rlStore[key].count <= RATE_LIMITS[rlType].maxRequests

\* C32: under any interleaving of checkRateLimit calls for the same key no
\* increment is lost: within a window the count of the entry is the number
\* of calls that were allowed in that window (it starts at one with the call
\* that opens the window, every allowed call adds one, and nothing else
\* changes it), and it never exceeds maxRequests.
C32_NoIncrementIsLost ==
  /\ []CountWithinLimit
  /\ [][EveryAllowedCallCounts /\ OnlyCallsCount]_vars

\* two calls at the same instant on one key have both been counted
C32_Witness ==
  /\ rlOut.called
  /\ rlOut.allowed
  /\ rlOut.before # NoEntry
  /\ rlOut.before.lastRequest = rlOut.at
  /\ rlStore[rlOut.key].count = rlOut.before.count + 1


\* C33: verifyAccessTokenSecure returns null for every token whose signature
\* segment is not the HMAC-SHA-256 of header.payload under JWT_SECRET; it
\* returns the payload only of a token whose signature is that HMAC.
C33_SecureVerifierChecksSignature ==
  (tkOut.done /\ tkOut.secure # Null)
    => tkOut.token.signature.mac =
         Hmac("HS256", JWT_SECRET, <<tkOut.token.header, tkOut.token.payload>>)


(***************************************************************************)
(* The page and the CSRF guard                                             *)
(***************************************************************************)
\* C34: when a state-changing request sent through makeRequest is rejected
\* by the server's CSRF check (the 403 of handleCSRFError), the client
\* fetches a fresh CSRF token and sends the same request once more, exactly
\* once, with the fresh token.
C34_CsrfRejectionIsRetriedOnce ==
  (client.pc = "done" /\ ~client.thrown
   /\ client.first = [status |-> 403, code |-> "CSRF_INVALID"])
  => client.fetches = 2 /\ client.refreshed

\* C38: whenever the client sends a state-changing request with a CSRF
\* token it holds as unexpired (stored with the expiresIn of the issuance
\* response), the browser still holds the csrf-token cookie of that token.
C38_HeldTokenHasItsCookie ==
  [][(client.pc = "fetch" /\ client'.pc = "answered"
      /\ getStoredCSRFToken(client, client.now) = client.header)
     => CookieSent(client, client.now) = client.header
    ]_vars


(***************************************************************************)
(* Set-password calls for one phone                                        *)
(***************************************************************************)
AtMostOneRowPerPhone ==
  \A phone \in Phones : Cardinality(UsersWithPhone(usersRows, phone)) <= 1

\* the write of a call whose phone has a row changes the hash of that row
\* to the hash of the call, and adds no row
WriteUpdatesInPlace ==
  \A h \in SetHandlers :
    (setCalls[h].pc = "write" /\ setCalls'[h].pc = "done"
     /\ UsersWithPhone(usersRows, setCalls[h].phone) # {})
    => /\ Len(usersRows') = Len(usersRows)
       /\ \A id \in UsersWithPhone(usersRows, setCalls[h].phone) :
            /\ usersRows'[id].phone = usersRows[id].phone
            /\ usersRows'[id].password_hash = setCalls[h].passwordHash

\* C35: after any interleaving of set-password requests for verification
\* records bound to the same phone, the users table holds at most one row
\* for that phone, and a set-password for a phone that already has a row
\* updates the password hash of that row in place instead of inserting a
\* second row.
C35_OneRowUpdatedInPlace ==
  /\ []AtMostOneRowPerPhone
  /\ [][WriteUpdatesInPlace]_vars


(***************************************************************************)
(* Methods that skip the CSRF validation                                   *)
(***************************************************************************)
\* C36: validateDoubleSubmitCSRF returns true for every request whose method
\* is GET, HEAD or OPTIONS, regardless of the cookie and header values.
C36_SafeMethodsSkipValidation ==
  (csrfResult # "none" /\ csrfRequest.method \in {"GET", "HEAD", "OPTIONS"})
    => csrfResult = "true"

\* C36, amended: validateDoubleSubmitCSRF returns true for every GET request,
\* regardless of the cookie and header values; a HEAD or OPTIONS request is
\* validated like a POST, and is refused when its header or cookie is
\* missing or when they differ.
C36_OnlyGetSkipsValidation ==
  /\ (csrfResult # "none" /\ csrfRequest.method = "GET")
       => csrfResult = "true"
  /\ (/\ csrfResult # "none"
      /\ csrfRequest.method \in {"HEAD", "OPTIONS"}
      /\ \/ ~Present(csrfRequest.csrfHeader)
         \/ ~Present(csrfRequest.csrfCookie)
         \/ csrfRequest.csrfHeader # csrfRequest.csrfCookie)
       => csrfResult = "false"

\* a GET whose header and cookie differ was validated and accepted
C36_Witness ==
  /\ csrfResult = "true"
  /\ csrfRequest.method = "GET"
  /\ Present(csrfRequest.csrfHeader)
  /\ Present(csrfRequest.csrfCookie)
  /\ csrfRequest.csrfHeader # csrfRequest.csrfCookie


(***************************************************************************)
(* The webhook's validation of the extracted code                          *)
(***************************************************************************)
\* C37: every non-null result of extractVerificationCode passes
\* validateVerificationCode unchanged, so the webhook never takes its
\* 'Invalid code format' branch.
C37_ExtractedCodeIsValid ==
  (exResult.done /\ exResult.code # Absent)
    => /\ validateVerificationCode(exResult.code)
       /\ exResult.branch = "lookup"
       /\ exResult.validated = exResult.code

\* a code written in lower case, after a word that is no code, was extracted
C37_Witness ==
  /\ exResult.done
  /\ exResult.code = <<"A","B","1","2","C","3">>
  /\ exResult.branch = "lookup"
  /\ \E i \in DOMAIN exMessage : exMessage[i] = "a"
  /\ exMessage[1] = "P"


(***************************************************************************)
(* The session of a password that has just been set                        *)
(***************************************************************************)
\* C39: the token returned by a successful set-password is accepted by
\* GET /api/session at every time before the token's own expiry, regardless
\* of whether the verification record it was minted from has expired.
C39_SetPasswordTokenOutlivesRecord ==
  [][(/\ last.op = "set-password"
      /\ last.status = 200
      /\ last.setCookie
      /\ now < authCookie.payload.json.exp
      /\ GetSession(authCookie))
     => last'.status = 200]_vars


(***************************************************************************)
(* The two verifiers on tokens of a configured lifetime                    *)
(***************************************************************************)
\* C40: verifyAccessTokenMiddleware accepts a token if and only if
\* verifyAccessToken accepts it, for tokens minted by generateAccessToken
\* under any configured JWT_EXPIRES_IN, at every time.
C40_VerifiersAgree ==
  (tkOut.done /\ tkOut.token = tkToken)
    => ((tkOut.middleware # Null)
          <=> (verifyAccessToken(tkOut.token, tkOut.at) # Null))

====
